---- MODULE Spec2Model ----
(***************************************************************************)
(* A model of the LeetCode interview-prep tool: the JSON-file problem      *)
(* cache of scraper.js (one file per slug, one directory per company), the *)
(* dataset reader, the ranking and the extraction pipeline of cli.js, and  *)
(* the commands that drive them.                                           *)
(*                                                                         *)
(* Text the code inspects character by character (file names, code         *)
(* templates, example inputs, frequencies) is a sequence of one-character  *)
(* strings.  Names the code only compares or joins into paths (slugs,      *)
(* companies) are plain strings.  An optional value is <<>> (null or       *)
(* undefined) or <<v>>.                                                    *)
(***************************************************************************)
EXTENDS Integers, Sequences, FiniteSets, TLC

VARIABLES
  fs,        \* the cache directory tree under CACHE_ROOT
  call,      \* the most recent call of a cache-store function and its result
  arg,       \* the input handed to the functions of cli.js that read no state
  ret,       \* the most recent call of such a function and its result
  run,       \* the locals of handleCacheCommand while its loop is running
  last       \* the most recent operation of the tool and what it did

vars == <<fs, call, arg, ret, run, last>>

-----------------------------------------------------------------------------
(* Generic helpers *)

None == <<>>
Some(x) == <<x>>

\* a function returned normally with v / raised an exception
Ok(v) == [threw |-> FALSE, val |-> v]
Threw == [threw |-> TRUE, val |-> None]

\* every ordering of a finite set, as sequences without repetition
SeqPerms(S) ==
  {s \in [1..Cardinality(S) -> S] : \A x \in S : \E i \in 1..Cardinality(S) : s[i] = x}

RECURSIVE Flatten(_)
Flatten(ss) == IF ss = <<>> THEN <<>> ELSE Head(ss) \o Flatten(Tail(ss))

Range(s) == {s[i] : i \in 1..Len(s)}

-----------------------------------------------------------------------------
(* The names of the model *)

\* partition directories the model lets exist under CACHE_ROOT
Partitions == {"general", "Amazon", "Google"}
\* a company for which no partition is ever created
NoSuchPartition == "Netflix"
Slugs == {"two-sum", "lru-cache", "3sum"}

-----------------------------------------------------------------------------
(* The remote problem detail of a slug, as fetchProblemDetails returns it  *)
(* when the request succeeds (the GraphQL `question` object).  The fields   *)
(* content, topicTags, hints, sampleTestCase and similarQuestions are      *)
(* copied into the record unread by anything modelled here and are left    *)
(* out.                                                                    *)

TwoSumCode ==
  <<"c", "l", "a", "s", "s", " ", "S", "o", "l", "u", "t", "i", "o", "n", ":", "\n",
    " ", " ", " ", " ", "d", "e", "f", " ", "t", "w", "o", "S", "u", "m", "(",
    "s", "e", "l", "f", ",", " ", "n", "u", "m", "s", ",", " ",
    "t", "a", "r", "g", "e", "t", ")", ":">>

LruCacheCode ==
  <<"c", "l", "a", "s", "s", " ", "L", "R", "U", ":", "\n",
    " ", " ", "d", "e", "f", " ", "g", "e", "t", "(", "s", "e", "l", "f", ",", " ",
    "k", "e", "y", ":", " ", "i", "n", "t", ")", ":">>

TwoSumExamples ==
  <<"[", "2", ",", "7", "]", "\n", "9", "\n", "[", "3", ",", "3", "]", "\n", "6">>

LruCacheExamples == <<"[", "2", "]", "\n", "[", "1", "]">>

Question(slug) ==
  CASE slug = "two-sum" ->
         [questionId |-> "1", title |-> "Two Sum", titleSlug |-> slug,
          difficulty |-> "Easy",
          codeSnippets |-> << [langSlug |-> "cpp", code |-> <<"x">>],
                              [langSlug |-> "python3", code |-> TwoSumCode] >>,
          exampleTestcases |-> TwoSumExamples]
    [] slug = "lru-cache" ->
         [questionId |-> "146", title |-> "LRU Cache", titleSlug |-> slug,
          difficulty |-> "Medium",
          codeSnippets |-> << [langSlug |-> "python3", code |-> LruCacheCode] >>,
          exampleTestcases |-> LruCacheExamples]
    [] OTHER ->
         [questionId |-> "15", title |-> "3Sum", titleSlug |-> slug,
          difficulty |-> "Medium",
          codeSnippets |-> << [langSlug |-> "cpp", code |-> <<"x">>] >>,
          exampleTestcases |-> <<>>]

\* A solution payload as fetchNeetCodeSolution builds it: no `source` key
\* (modelled as source "").
NeetCodePayload(slug) ==
  [solutions |-> <<"brute force", "hash map">>, optimalSolution |-> "hash map",
   source |-> ""]

\* A solution payload as fetchLeetCodeDiscussionSolution builds it.
DiscussionPayload(slug) ==
  [solutions |-> <<"top voted", "second">>, optimalSolution |-> "top voted",
   source |-> "leetcode_discussion"]

\* the record fetchAndCacheProblem builds from a detail and a solution
Processed(data, solution, company) ==
  [id |-> data.questionId, title |-> data.title, slug |-> data.titleSlug,
   difficulty |-> data.difficulty, codeSnippets |-> data.codeSnippets,
   exampleTestcases |-> data.exampleTestcases,
   neetcodeSolution |-> solution, company |-> company]

-----------------------------------------------------------------------------
(* The cache store (scraper.js).                                           *)
(*   fs.root       CACHE_ROOT exists                                       *)
(*   fs.dirs       the partition directories under it                      *)
(*   fs.files[p][s] the text of <p>/<s>.json: None when there is no file   *)
(* A file's text is the serialization of a record or a text JSON.parse     *)
(* rejects (a partial write, an empty file).                               *)

JSONstringify(data) == [parseable |-> TRUE, value |-> data]
CorruptText == [parseable |-> FALSE, value |-> None]
JSONparse(text) == IF text.parseable THEN Ok(Some(text.value)) ELSE Threw

NoFiles == [p \in Partitions |-> [s \in Slugs |-> None]]

\* the state the module's load leaves: CACHE_ROOT made, nothing in it
EmptyCache == [root |-> TRUE, dirs |-> {}, files |-> NoFiles]

saveProblemCache(f, titleSlug, data, company) ==
  [root |-> TRUE,
   dirs |-> f.dirs \cup {company},
   files |-> [f.files EXCEPT ![company][titleSlug] = Some(JSONstringify(data))]]

\* mutant: only the default partition is searched, not every directory
loadProblemCache_DefaultOnly(f, listing, titleSlug) ==
  IF ~f.root \/ "general" \notin f.dirs \/ f.files["general"][titleSlug] = None
  THEN Ok(None)
  ELSE JSONparse(f.files["general"][titleSlug][1])

\* mutant: the existence test is made on the directory, not on the file, so
\* reading a file that is not there raises
loadProblemCache_NoFileTest(f, listing, titleSlug) ==
  IF ~f.root THEN Ok(None)
  ELSE LET companies == SelectSeq(listing, LAMBDA c : c \in f.dirs)
       IN IF companies = <<>> THEN Ok(None)
          ELSE IF f.files[companies[1]][titleSlug] = None THEN Threw
          ELSE JSONparse(f.files[companies[1]][titleSlug][1])

\* `listing` is the order in which readdirSync lists CACHE_ROOT
loadProblemCache(f, listing, titleSlug) ==
  IF ~f.root THEN Ok(None)
  ELSE LET companies == SelectSeq(listing, LAMBDA c : c \in f.dirs)
           found == SelectSeq(companies, LAMBDA c : f.files[c][titleSlug] # None)
       IN IF found = <<>> THEN Ok(None)
          ELSE JSONparse(f.files[found[1]][titleSlug][1])

\* mutant: the try/catch encloses the loop, so the first file that does not
\* parse ends the listing of its directory
ReadPartition_StopAtCorrupt(f, fileListing, comp) ==
  IF comp \notin f.dirs THEN <<>>
  ELSE LET files == SelectSeq(fileListing, LAMBDA s : f.files[comp][s] # None)
           parsed == [i \in 1..Len(files) |-> JSONparse(f.files[comp][files[i]][1])]
       IN Flatten([i \in 1..Len(files) |->
                     IF \E j \in 1..i : parsed[j].threw THEN <<>> ELSE parsed[i].val])

\* the records of one partition directory, in the order `fileListing` lists
\* its files; a file that does not parse is logged and skipped
ReadPartition(f, fileListing, comp) ==
  IF comp \notin f.dirs THEN <<>>
  ELSE LET files == SelectSeq(fileListing, LAMBDA s : f.files[comp][s] # None)
           parsed == [i \in 1..Len(files) |-> JSONparse(f.files[comp][files[i]][1])]
       IN Flatten([i \in 1..Len(files) |->
                     IF parsed[i].threw THEN <<>> ELSE parsed[i].val])

\* `company` is None (no filter) or Some(name)
getAllCachedProblems(f, listing, fileListing, company) ==
  IF ~f.root THEN <<>>
  ELSE LET companies == IF company # None THEN <<company[1]>>
                        ELSE SelectSeq(listing, LAMBDA c : c \in f.dirs)
       IN Flatten([i \in 1..Len(companies) |->
                     ReadPartition(f, fileListing, companies[i])])

-----------------------------------------------------------------------------
(* Calls of the store on an arbitrary cache directory *)

DiskSlugs == {"two-sum", "lru-cache"}

\* what a cache file can hold before the calls start: nothing, a text that
\* does not parse, or the record of its slug tagged with its partition
DiskKinds == {"absent", "corrupt", "valid"}

DiskText(kind, p, s) ==
  CASE kind = "corrupt" -> Some(CorruptText)
    [] kind = "valid" -> Some(JSONstringify(Processed(Question(s), None, p)))
    [] OTHER -> None

MkDisk(d, kinds) ==
  [root |-> TRUE, dirs |-> d,
   files |-> [p \in Partitions |-> [s \in Slugs |->
                IF p \in d /\ s \in DiskSlugs THEN DiskText(kinds[p, s], p, s)
                ELSE None]]]

DiskStates ==
  {[root |-> FALSE, dirs |-> {}, files |-> NoFiles]} \cup
  UNION {{MkDisk(d, kinds) : kinds \in [d \X DiskSlugs -> DiskKinds]} :
           d \in SUBSET Partitions}

NoCall == [op |-> "none", slug |-> "", part |-> "", rec |-> None,
           res |-> Ok(None), after |-> None]

\* the record handed to saveProblemCache for a slug and a partition
SaveRecords(slug, p) == {Processed(Question(slug), None, p)}

SaveCall(slug, r, p) ==
  /\ fs' = saveProblemCache(fs, slug, r, p)
  /\ call' = [op |-> "save", slug |-> slug, part |-> p, rec |-> Some(r),
              res |-> Ok(None), after |-> None]
  /\ UNCHANGED <<arg, ret, run, last>>

LoadCall(slug, listing) ==
  /\ call' = [op |-> "load", slug |-> slug, part |-> "", rec |-> None,
              res |-> loadProblemCache(fs, listing, slug),
              after |-> IF call.op = "save" THEN Some(call) ELSE None]
  /\ UNCHANGED <<fs, arg, ret, run, last>>

ListCall(company, listing, fileListing) ==
  /\ call' = [op |-> "list", slug |-> "",
              part |-> IF company = None THEN "" ELSE company[1], rec |-> None,
              res |-> Ok(getAllCachedProblems(fs, listing, fileListing, company)),
              after |-> None]
  /\ UNCHANGED <<fs, arg, ret, run, last>>

NoArg == <<>>
NoRet == [op |-> "none"]

\* handleCacheCommand is not running
Idle == [active |-> FALSE, company |-> "", limit |-> None, problems |-> <<>>,
         i |-> 0, cached |-> 0, skipped |-> 0]

\* no operation of the tool has run
NoOp == [op |-> "none", slug |-> None, online |-> FALSE, threw |-> FALSE,
         net |-> <<>>, template |-> "none"]

InitDisk ==
  /\ fs \in DiskStates
  /\ call = NoCall
  /\ arg = NoArg
  /\ ret = NoRet
  /\ run = Idle
  /\ last = NoOp

NextDisk ==
  \/ \E slug \in DiskSlugs, p \in Partitions :
       \E r \in SaveRecords(slug, p) : SaveCall(slug, r, p)
  \/ \E slug \in DiskSlugs, listing \in SeqPerms(Partitions) : LoadCall(slug, listing)
  \/ \E listing \in SeqPerms(Partitions), fileListing \in SeqPerms(DiskSlugs) :
       ListCall(None, listing, fileListing)
  \/ \E c \in Partitions \cup {NoSuchPartition}, fileListing \in SeqPerms(DiskSlugs) :
       ListCall(Some(c), <<>>, fileListing)

SpecDisk == InitDisk /\ [][NextDisk]_vars

-----------------------------------------------------------------------------
(* Text, as the regular expressions and string methods of cli.js read it *)

Digits == {"0", "1", "2", "3", "4", "5", "6", "7", "8", "9"}
Letters ==
  {"a", "b", "c", "d", "e", "f", "g", "h", "i", "j", "k", "l", "m", "n", "o", "p",
   "q", "r", "s", "t", "u", "v", "w", "x", "y", "z",
   "A", "B", "C", "D", "E", "F", "G", "H", "I", "J", "K", "L", "M", "N", "O", "P",
   "Q", "R", "S", "T", "U", "V", "W", "X", "Y", "Z"}
\* the classes \s and \w
Spaces == {" ", "\t", "\n", "\r"}
WordChars == Letters \cup Digits \cup {"_"}

\* the number of characters of class `cls` that s has from position i on
RECURSIVE RunLen(_, _, _)
RunLen(s, i, cls) ==
  IF i <= Len(s) /\ s[i] \in cls THEN 1 + RunLen(s, i + 1, cls) ELSE 0

\* s holds the literal `lit` at position i
HasAt(s, i, lit) ==
  /\ i >= 1
  /\ i + Len(lit) - 1 <= Len(s)
  /\ \A j \in 1..Len(lit) : s[i + j - 1] = lit[j]

\* String.prototype.indexOf: the first position of `lit` in s, 0 when none
\* (positions count from 1 here)
IndexOf(s, lit) ==
  LET hits == {i \in 1..Len(s) : HasAt(s, i, lit)}
  IN IF hits = {} THEN 0 ELSE CHOOSE i \in hits : \A j \in hits : i <= j

\* String.prototype.trim
Trim(s) ==
  LET keep == {i \in 1..Len(s) : s[i] \notin Spaces}
  IN IF keep = {} THEN <<>>
     ELSE SubSeq(s, CHOOSE i \in keep : \A j \in keep : i <= j,
                    CHOOSE i \in keep : \A j \in keep : i >= j)

\* String.prototype.split on a one-character separator
RECURSIVE Split(_, _)
Split(s, sep) ==
  LET i == IndexOf(s, <<sep>>)
  IN IF i = 0 THEN <<s>>
     ELSE <<SubSeq(s, 1, i - 1)>> \o Split(SubSeq(s, i + 1, Len(s)), sep)

\* String.prototype.endsWith
EndsWith(s, lit) == HasAt(s, Len(s) - Len(lit) + 1, lit)

\* String.prototype.replace with a string pattern: the first occurrence only
ReplaceFirst(s, lit, by) ==
  LET i == IndexOf(s, lit)
  IN IF i = 0 THEN s
     ELSE SubSeq(s, 1, i - 1) \o by \o SubSeq(s, i + Len(lit), Len(s))

DigitValue(c) ==
  CASE c = "0" -> 0 [] c = "1" -> 1 [] c = "2" -> 2 [] c = "3" -> 3 [] c = "4" -> 4
    [] c = "5" -> 5 [] c = "6" -> 6 [] c = "7" -> 7 [] c = "8" -> 8 [] OTHER -> 9

RECURSIVE DecimalValue(_)
DecimalValue(ds) ==
  IF ds = <<>> THEN 0
  ELSE 10 * DecimalValue(SubSeq(ds, 1, Len(ds) - 1)) + DigitValue(ds[Len(ds)])

\* parseInt of a field: None is NaN.  `field` is None when the row has no such
\* column (parseInt(undefined) is NaN).  Leading white space is skipped, a sign
\* is read, then the longest run of decimal digits; what follows is ignored.
parseInt(field) ==
  IF field = None THEN None
  ELSE LET str == field[1]
           start == 1 + RunLen(str, 1, Spaces)
           signed == start <= Len(str) /\ str[start] \in {"+", "-"}
           first == IF signed THEN start + 1 ELSE start
           n == RunLen(str, first, Digits)
           magnitude == DecimalValue(SubSeq(str, first, first + n - 1))
       IN IF n = 0 THEN None
          ELSE Some(IF signed /\ str[start] = "-" THEN 0 - magnitude ELSE magnitude)

-----------------------------------------------------------------------------
(* The dataset reader and the ranking (cli.js) *)

\* extractSlug.  A link is its text split at "/": the pattern
\* /leetcode\.com\/problems\/([^/]+)/ asks for the segments leetcode.com and
\* problems followed by a segment that is not empty, and takes the first.
extractSlug(url) ==
  LET hits == {i \in 1..Len(url) :
                 /\ i + 2 <= Len(url)
                 /\ url[i] = "leetcode.com"
                 /\ url[i + 1] = "problems"
                 /\ url[i + 2] # ""}
  IN IF hits = {} THEN None
     ELSE Some(url[(CHOOSE i \in hits : \A j \in hits : i <= j) + 2])

ProblemLink(slug) == <<"https:", "", "leetcode.com", "problems", slug>>

\* f.replace(/^[\d.]+\s+/, ''): a leading run of digits and dots followed by
\* white space is removed together with that white space
StripOrdinal(f) ==
  LET n == RunLen(f, 1, Digits \cup {"."})
      w == RunLen(f, n + 1, Spaces)
  IN IF n >= 1 /\ w >= 1 THEN SubSeq(f, n + w + 1, Len(f)) ELSE f

DotCsv == <<".", "c", "s", "v">>

\* mutant: the ordinal prefix is left on the name
cleanedName_KeepOrdinal(f) == ReplaceFirst(f, DotCsv, <<>>)

cleanedName(f) == ReplaceFirst(StripOrdinal(f), DotCsv, <<>>)

\* loadProblems on the listing of a company directory: each entry is a file
\* name with the rows csv-parser reads from it.  The result is the rows of the
\* first listed match, or the rejection "Time period not found".
loadProblems(dir, timePeriod) ==
  LET files == SelectSeq(dir, LAMBDA e : EndsWith(e.name, DotCsv))
      matching == SelectSeq(files, LAMBDA e : cleanedName(e.name) = timePeriod)
  IN IF matching = <<>> THEN [threw |-> TRUE, val |-> <<>>]
     ELSE Ok(matching[1].rows)

\* parseInt(row.Frequency) || 0
Frequency(row) ==
  LET v == parseInt(row.Frequency) IN IF v = None THEN 0 ELSE v[1]

\* mutant: the comparator ranks by ascending frequency
compareFrequency_Ascending(a, b) == Frequency(a) - Frequency(b)

\* the comparator of handleCacheCommand's sort
compareFrequency(a, b) == Frequency(b) - Frequency(a)

\* Array.prototype.sort is stable: an element goes after every element the
\* comparator does not put behind it
RECURSIVE InsertRanked(_, _)
InsertRanked(sorted, x) ==
  IF sorted = <<>> THEN <<x>>
  ELSE IF compareFrequency(Head(sorted), x) <= 0
       THEN <<Head(sorted)>> \o InsertRanked(Tail(sorted), x)
       ELSE <<x>> \o sorted

RECURSIVE SortByFrequency(_)
SortByFrequency(problems) ==
  IF problems = <<>> THEN <<>>
  ELSE InsertRanked(SortByFrequency(SubSeq(problems, 1, Len(problems) - 1)),
                    problems[Len(problems)])

\* handleCacheCommand's list: ranked, then cut to `limit` when one is given
\* and positive (None: no --limit)
RankForCaching(problems, limit) ==
  LET ranked == SortByFrequency(problems)
  IN IF limit # None /\ limit[1] > 0
     THEN SubSeq(ranked, 1, IF limit[1] < Len(ranked) THEN limit[1] ELSE Len(ranked))
     ELSE ranked

-----------------------------------------------------------------------------
(* The ranking applied to every short list of dataset rows *)

MaxRows == 4
MaxLimit == 2

\* the Frequency column: a number, a text parseInt reads up to a point or not
\* at all, or no column (None)
FreqValues ==
  {Some(<<"5", "0">>), Some(<<"1", "0">>), Some(<<"5">>), Some(<<"1">>),
   Some(<<"5", ".", "9">>), Some(<<"n", "/", "a">>), None}

\* the i-th row of a file, with the given Frequency
Row(i, freq) ==
  [Title |-> "Problem " \o ToString(i), Difficulty |-> "MEDIUM",
   Frequency |-> freq, Link |-> ProblemLink("two-sum")]

RowLists ==
  UNION {{[i \in 1..n |-> Row(i, fr[i])] : fr \in [1..n -> FreqValues]} :
           n \in 0..MaxRows}

Limits == {None} \cup {Some(n) : n \in 0..MaxLimit}

RankCall(limit) ==
  /\ ret' = [op |-> "rank", limit |-> limit, val |-> RankForCaching(arg, limit)]
  /\ UNCHANGED <<fs, call, arg, run, last>>

InitRank ==
  /\ fs = EmptyCache
  /\ call = NoCall
  /\ arg \in RowLists
  /\ ret = NoRet
  /\ run = Idle
  /\ last = NoOp

NextRank == \E limit \in Limits : RankCall(limit)

SpecRank == InitRank /\ [][NextRank]_vars

-----------------------------------------------------------------------------
(* loadProblems applied to company directories *)

MaxFiles == 2

AllLabel == <<"A", "l", "l">>
ThirtyDays == <<"T", "h", "i", "r", "t", "y", " ", "D", "a", "y", "s">>
ThirtyDaysDigits == <<"3", "0", " ", "D", "a", "y", "s">>
ThirtyDaysLower == <<"t", "h", "i", "r", "t", "y", " ", "d", "a", "y", "s">>

Ordinal(d) == <<d, ".", " ">>

\* files a company directory may hold, each with rows of its own
DataFiles ==
  {[name |-> Ordinal("1") \o ThirtyDays \o DotCsv, rows |-> <<Row(1, None)>>],
   [name |-> Ordinal("5") \o AllLabel \o DotCsv, rows |-> <<Row(2, None), Row(3, None)>>],
   [name |-> Ordinal("2") \o AllLabel \o DotCsv, rows |-> <<Row(4, None)>>],
   [name |-> ThirtyDays \o DotCsv, rows |-> <<Row(5, None)>>],
   [name |-> Ordinal("4") \o ThirtyDaysLower \o DotCsv, rows |-> <<Row(6, None)>>],
   [name |-> <<"1", ".">> \o ThirtyDays \o DotCsv, rows |-> <<Row(7, None)>>],
   [name |-> Ordinal("1") \o ThirtyDaysDigits \o DotCsv, rows |-> <<>>],
   [name |-> Ordinal("1") \o ThirtyDays \o <<".", "t", "x", "t">>, rows |-> <<Row(8, None)>>]}

PeriodLabels == {AllLabel, ThirtyDays, ThirtyDaysDigits, ThirtyDaysLower}

\* the listings of at most MaxFiles files, in any order
DirListings ==
  UNION {{l \in [1..n -> DataFiles] : \A i, j \in 1..n : l[i] = l[j] => i = j} :
           n \in 0..MaxFiles}

LoadProblemsCall ==
  /\ ret' = [op |-> "loadProblems", val |-> loadProblems(arg.dir, arg.period)]
  /\ UNCHANGED <<fs, call, arg, run, last>>

InitData ==
  /\ fs = EmptyCache
  /\ call = NoCall
  /\ arg \in {[dir |-> d, period |-> p] : d \in DirListings, p \in PeriodLabels}
  /\ ret = NoRet
  /\ run = Idle
  /\ last = NoOp

NextData == LoadProblemsCall

SpecData == InitData /\ [][NextData]_vars

-----------------------------------------------------------------------------
(* The functions of cli.js that read a code template and example text *)

DefKeyword == <<"d", "e", "f">>
OpenSelf == <<"(", "s", "e", "l", "f", ",">>
Fallback == <<"s", "o", "l", "u", "t", "i", "o", "n">>

\* the first of a non-empty set of positions
First(hits) == CHOOSE i \in hits : \A j \in hits : i <= j

\* mutant: the name may not be followed by white space
DefMatchAt_NoSpaceBeforeParen(s, i) ==
  LET a == i + Len(DefKeyword)
      w1 == RunLen(s, a, Spaces)
      n == RunLen(s, a + w1, WordChars)
  IN IF HasAt(s, i, DefKeyword) /\ w1 >= 1 /\ n >= 1
        /\ HasAt(s, a + w1 + n, <<"(">>)
     THEN Some(SubSeq(s, a + w1, a + w1 + n - 1))
     ELSE None

\* /def\s+(\w+)\s*\(/ tried at position i: None, or Some(the captured name).
\* The classes \s, \w and "(" are disjoint, so each run is the longest one.
DefMatchAt(s, i) ==
  LET a == i + Len(DefKeyword)
      w1 == RunLen(s, a, Spaces)
      n == RunLen(s, a + w1, WordChars)
      w2 == RunLen(s, a + w1 + n, Spaces)
  IN IF HasAt(s, i, DefKeyword) /\ w1 >= 1 /\ n >= 1
        /\ HasAt(s, a + w1 + n + w2, <<"(">>)
     THEN Some(SubSeq(s, a + w1, a + w1 + n - 1))
     ELSE None

\* codeSnippet is None (null, undefined) or Some(text); String.prototype.match
\* returns the leftmost match
extractPythonFunctionName(codeSnippet) ==
  IF codeSnippet = None \/ codeSnippet[1] = <<>> THEN Fallback
  ELSE LET s == codeSnippet[1]
           hits == {i \in 1..Len(s) : DefMatchAt(s, i) # None}
       IN IF hits = {} THEN Fallback ELSE DefMatchAt(s, First(hits))[1]

\* /def\s+\w+\s*\(self,\s*([^)]+)\)/ tried at position i: None, or Some(the
\* captured parameter text).  \s* takes the white space after the comma and
\* [^)]+ everything up to the first ")"; when nothing is left for [^)]+, \s*
\* gives its last character back.
SignatureMatchAt(s, i) ==
  LET a == i + Len(DefKeyword)
      w1 == RunLen(s, a, Spaces)
      n == RunLen(s, a + w1, WordChars)
      w2 == RunLen(s, a + w1 + n, Spaces)
      c == a + w1 + n + w2 + Len(OpenSelf)
      w3 == RunLen(s, c, Spaces)
      m == RunLen(s, c + w3, Range(s) \ {")"})
  IN IF ~(HasAt(s, i, DefKeyword) /\ w1 >= 1 /\ n >= 1
          /\ HasAt(s, a + w1 + n + w2, OpenSelf))
     THEN None
     ELSE IF m >= 1
          THEN IF HasAt(s, c + w3 + m, <<")">>)
               THEN Some(SubSeq(s, c + w3, c + w3 + m - 1)) ELSE None
          ELSE IF w3 >= 1 /\ HasAt(s, c + w3, <<")">>)
               THEN Some(SubSeq(s, c + w3 - 1, c + w3 - 1)) ELSE None

\* mutant: a final group shorter than paramCount is kept
RECURSIVE GroupLines_KeepPartial(_, _, _, _)
GroupLines_KeepPartial(lines, params, paramCount, i) ==
  IF i >= Len(lines) THEN <<>>
  ELSE << [params |-> params,
           inputs |-> SubSeq(lines, i + 1,
                             IF i + paramCount <= Len(lines) THEN i + paramCount
                             ELSE Len(lines))] >>
       \o GroupLines_KeepPartial(lines, params, paramCount, i + paramCount)

\* the loop of parseTestCases from index i (counted from 0) on
RECURSIVE GroupLines(_, _, _, _)
GroupLines(lines, params, paramCount, i) ==
  IF i >= Len(lines) THEN <<>>
  ELSE (IF i + paramCount <= Len(lines)
        THEN << [params |-> params,
                 inputs |-> SubSeq(lines, i + 1, i + paramCount)] >>
        ELSE <<>>)
       \o GroupLines(lines, params, paramCount, i + paramCount)

\* Array.prototype.find of the python3 or python snippet: None when there is none
FindPython(codeSnippets) ==
  LET hits == {i \in 1..Len(codeSnippets) :
                 codeSnippets[i].langSlug \in {"python3", "python"}}
  IN IF hits = {} THEN None ELSE Some(codeSnippets[First(hits)])

\* an absent exampleTestcases and an empty one are both the empty text here
parseTestCases(problemData) ==
  IF problemData.exampleTestcases = <<>> THEN <<>>
  ELSE LET lines == SelectSeq(Split(problemData.exampleTestcases, "\n"),
                              LAMBDA l : Trim(l) # <<>>)
           pythonCode == FindPython(problemData.codeSnippets)
       IN IF pythonCode = None THEN <<>>
          ELSE LET code == pythonCode[1].code
                   hits == {i \in 1..Len(code) : SignatureMatchAt(code, i) # None}
               IN IF hits = {} THEN <<>>
                  ELSE LET funcMatch == SignatureMatchAt(code, First(hits))[1]
                           parts == Split(funcMatch, ",")
                           params == [j \in 1..Len(parts) |->
                                        Trim(Split(Trim(parts[j]), ":")[1])]
                       IN GroupLines(lines, params, Len(params), 0)

\* a method that takes no argument
NoParamCode ==
  <<"d", "e", "f", " ", "p", "i", "n", "g", "(", "s", "e", "l", "f", ")", ":">>

\* a parameter list of one blank
BlankParamCode ==
  <<"d", "e", "f", " ", "f", "(", "s", "e", "l", "f", ",", " ", ")", ":">>

\* nothing between the comma and the parenthesis
BareCommaCode ==
  <<"d", "e", "f", " ", "f", "(", "s", "e", "l", "f", ",", ")", ":">>

\* a signature spread over lines, with annotations
SpreadCode ==
  <<"d", "e", "f", " ", " ", "m", "a", "x", "A", "r", "e", "a", " ", "(",
    "s", "e", "l", "f", ",", "\n", " ", "a", ":", " ", "L", "i", "s", "t",
    "[", "i", "n", "t", "]", ",", " ", "b", ":", " ", "i", "n", "t", ",",
    " ", "c", ")", " ", "-", ">", " ", "i", "n", "t", ":">>

\* a plain function before the method
HelperFirstCode ==
  <<"d", "e", "f", " ", "h", "e", "l", "p", "e", "r", "(", "x", ")", ":",
    "\n", "d", "e", "f", " ", "r", "u", "n", "(", "s", "e", "l", "f", ",",
    " ", "a", ")", ":">>

\* the letters def inside a word
UndefinedCode ==
  <<"x", " ", "=", " ", "u", "n", "d", "e", "f", "i", "n", "e", "d", " ",
    "(", "y", ")">>

\* def with no name
NamelessCode ==
  <<"d", "e", "f", " ", "(", "s", "e", "l", "f", ",", " ", "a", ")">>

\* a parameter list that is never closed
UnclosedCode ==
  <<"d", "e", "f", " ", "a", "(", "b", ")", " ", "d", "e", "f", " ", "c",
    "(", "s", "e", "l", "f", ",", " ", "d", ",", " ", "e">>

\* parameters with defaults
DefaultsCode ==
  <<"d", "e", "f", " ", "f", "2", "(", "s", "e", "l", "f", ",", " ", "a",
    ":", "i", "n", "t", "=", "1", ",", "b", "_", "c", " ", "=", " ", "2", ")">>

MaxLines == 6

CodeTexts ==
  {TwoSumCode, LruCacheCode, NoParamCode, BlankParamCode, BareCommaCode,
   SpreadCode, HelperFirstCode, UndefinedCode, NamelessCode, UnclosedCode,
   DefaultsCode, <<>>}

\* the snippet lists of a problem: one python3 template, no python template,
\* or a python template listed before the python3 one
SnippetLists ==
  {<< [langSlug |-> "cpp", code |-> <<"x">>], [langSlug |-> "python3", code |-> c] >> :
     c \in CodeTexts}
  \cup {<< [langSlug |-> "cpp", code |-> <<"x">>] >>,
        << [langSlug |-> "python", code |-> LruCacheCode],
           [langSlug |-> "python3", code |-> TwoSumCode] >>}

\* what line i of an example text can be: empty, blank, or a literal of its
\* own behind a space
LineKinds == {"empty", "blank", "literal"}

LineOf(kind, i) ==
  CASE kind = "empty" -> <<>>
    [] kind = "blank" -> <<" ">>
    [] OTHER -> <<" ", ToString(i)>>

RECURSIVE JoinLines(_)
JoinLines(ls) ==
  IF ls = <<>> THEN <<>>
  ELSE IF Len(ls) = 1 THEN ls[1]
  ELSE ls[1] \o <<"\n">> \o JoinLines(Tail(ls))

ExampleTexts ==
  UNION {{JoinLines([i \in 1..n |-> LineOf(kinds[i], i)]) : kinds \in [1..n -> LineKinds]} :
           n \in 0..MaxLines}

ParseTestCasesCall ==
  /\ ret' = [op |-> "parseTestCases", code |-> None, val |-> parseTestCases(arg)]
  /\ UNCHANGED <<fs, call, arg, run, last>>

ExtractNameCall(codeSnippet) ==
  /\ ret' = [op |-> "extractPythonFunctionName", code |-> codeSnippet,
             val |-> extractPythonFunctionName(codeSnippet)]
  /\ UNCHANGED <<fs, call, arg, run, last>>

InitText ==
  /\ fs = EmptyCache
  /\ call = NoCall
  /\ arg \in [codeSnippets : SnippetLists, exampleTestcases : ExampleTexts]
  /\ ret = NoRet
  /\ run = Idle
  /\ last = NoOp

NextText ==
  \/ ParseTestCasesCall
  \/ \E c \in {None} \cup {Some(arg.codeSnippets[i].code) : i \in 1..Len(arg.codeSnippets)} :
       ExtractNameCall(c)

SpecText == InitText /\ [][NextText]_vars

-----------------------------------------------------------------------------
(* The operations of the tool on the cache (scraper.js, cli.js).           *)
(* What the remote services answer is not the tool's to decide: `w` says,  *)
(* for each kind of request, whether it would bring data back.  A request  *)
(* that fails is caught inside its fetcher and shows as no data.           *)

Answer(detail, neet, disc) == [detail |-> detail, neet |-> neet, disc |-> disc]

\* no service answers
Unreachable == Answer(FALSE, FALSE, FALSE)

\* the details come and no solution does
NoSolution == Answer(TRUE, FALSE, FALSE)

\* the answers that make a difference to a solution lookup: NeetCode has
\* the solution, only the discussion has one, nobody has
SolutionAnswers == {Answer(TRUE, TRUE, FALSE), Answer(TRUE, FALSE, TRUE), NoSolution}

\* and to a whole fetch: the details may not come either
Remote == {Unreachable} \cup SolutionAnswers

\* the answers to the two lookups of createPythonTemplateFile: the second
\* is made for a record that has no solution, so that the first, if made,
\* brought none
TemplateAnswers ==
  {a \in Remote \X SolutionAnswers : a[1] = NoSolution \/ a[2] = NoSolution}

\* the orders in which CACHE_ROOT is listed: every two partitions come in
\* both orders
Listings == {<<"Amazon", "Google", "general">>, <<"general", "Google", "Amazon">>}

\* what a function leaves behind: the cache, its value (None for null),
\* whether it threw, and the requests it sent, in order
Result(f, val, threw, net) == [fs |-> f, val |-> val, threw |-> threw, net |-> net]

\* mutant: the discussion is asked whatever NeetCode answered
FetchSolution_AskBoth(slug, id, w) ==
  [val |-> IF w.neet THEN Some(NeetCodePayload(slug))
           ELSE IF w.disc THEN Some(DiscussionPayload(slug)) ELSE None,
   net |-> << <<"neetcode", slug>>, <<"discussion", slug>> >>]

\* NeetCode first, the LeetCode discussion when NeetCode has nothing and the
\* problem has an id
FetchSolution(slug, id, w) ==
  IF w.neet
  THEN [val |-> Some(NeetCodePayload(slug)), net |-> << <<"neetcode", slug>> >>]
  ELSE IF id # ""
       THEN [val |-> IF w.disc THEN Some(DiscussionPayload(slug)) ELSE None,
             net |-> << <<"neetcode", slug>>, <<"discussion", slug>> >>]
       ELSE [val |-> None, net |-> << <<"neetcode", slug>> >>]

\* mutant: the cache is not consulted before fetching
fetchAndCacheProblem_NoCacheCheck(f, listing, url, company, w) ==
  LET slug == extractSlug(url)
  IN IF slug = None THEN Result(f, None, FALSE, <<>>)
     ELSE IF ~w.detail
          THEN Result(f, None, FALSE, << <<"details", slug[1]>> >>)
          ELSE LET data == Question(slug[1])
                   sol == FetchSolution(slug[1], data.questionId, w)
                   processed == Processed(data, sol.val, company)
               IN Result(saveProblemCache(f, slug[1], processed, company),
                         Some(processed), FALSE,
                         << <<"details", slug[1]>> >> \o sol.net)

\* mutant: a fetch that brings no detail leaves a file that holds no record
fetchAndCacheProblem_SaveOnFailure(f, listing, url, company, w) ==
  LET slug == extractSlug(url)
  IN IF slug = None THEN Result(f, None, FALSE, <<>>)
     ELSE LET cached == loadProblemCache(f, listing, slug[1])
          IN IF cached.threw THEN Result(f, None, TRUE, <<>>)
             ELSE IF cached.val # None THEN Result(f, cached.val, FALSE, <<>>)
             ELSE IF ~w.detail
                  THEN Result([f EXCEPT !.dirs = @ \cup {company},
                                        !.files[company][slug[1]] = Some(CorruptText)],
                              None, FALSE, << <<"details", slug[1]>> >>)
                  ELSE LET data == Question(slug[1])
                           sol == FetchSolution(slug[1], data.questionId, w)
                           processed == Processed(data, sol.val, company)
                       IN Result(saveProblemCache(f, slug[1], processed, company),
                                 Some(processed), FALSE,
                                 << <<"details", slug[1]>> >> \o sol.net)

\* mutant: only the partition of the company asked for is searched before
\* fetching
fetchAndCacheProblem_OwnPartitionOnly(f, listing, url, company, w) ==
  LET slug == extractSlug(url)
  IN IF slug = None THEN Result(f, None, FALSE, <<>>)
     ELSE LET cached == loadProblemCache(f, <<company>>, slug[1])
          IN IF cached.threw THEN Result(f, None, TRUE, <<>>)
             ELSE IF cached.val # None THEN Result(f, cached.val, FALSE, <<>>)
             ELSE IF ~w.detail
                  THEN Result(f, None, FALSE, << <<"details", slug[1]>> >>)
                  ELSE LET data == Question(slug[1])
                           sol == FetchSolution(slug[1], data.questionId, w)
                           processed == Processed(data, sol.val, company)
                       IN Result(saveProblemCache(f, slug[1], processed, company),
                                 Some(processed), FALSE,
                                 << <<"details", slug[1]>> >> \o sol.net)

fetchAndCacheProblem(f, listing, url, company, w) ==
  LET slug == extractSlug(url)
  IN IF slug = None THEN Result(f, None, FALSE, <<>>)
     ELSE LET cached == loadProblemCache(f, listing, slug[1])
          IN IF cached.threw THEN Result(f, None, TRUE, <<>>)
             ELSE IF cached.val # None THEN Result(f, cached.val, FALSE, <<>>)
             ELSE IF ~w.detail
                  THEN Result(f, None, FALSE, << <<"details", slug[1]>> >>)
                  ELSE LET data == Question(slug[1])
                           sol == FetchSolution(slug[1], data.questionId, w)
                           processed == Processed(data, sol.val, company)
                       IN Result(saveProblemCache(f, slug[1], processed, company),
                                 Some(processed), FALSE,
                                 << <<"details", slug[1]>> >> \o sol.net)

\* mutant: a solution is looked for whether or not the record has one
fetchNeetCodeForCached_Refetch(f, listing, titleSlug, w) ==
  LET cached == loadProblemCache(f, listing, titleSlug)
  IN IF cached.threw THEN Result(f, None, TRUE, <<>>)
     ELSE IF cached.val = None THEN Result(f, None, FALSE, <<>>)
     ELSE LET rec == cached.val[1]
              sol == FetchSolution(titleSlug, rec.id, w)
          IN IF sol.val # None
             THEN Result(saveProblemCache(f, titleSlug,
                           [rec EXCEPT !.neetcodeSolution = sol.val],
                           IF rec.company # "" THEN rec.company ELSE "general"),
                         sol.val, FALSE, sol.net)
             ELSE Result(f, None, FALSE, sol.net)

\* mutant: the solution is saved into the default partition, whatever the
\* record's company
fetchNeetCodeForCached_ToGeneral(f, listing, titleSlug, w) ==
  LET cached == loadProblemCache(f, listing, titleSlug)
  IN IF cached.threw THEN Result(f, None, TRUE, <<>>)
     ELSE IF cached.val = None THEN Result(f, None, FALSE, <<>>)
     ELSE LET rec == cached.val[1]
          IN IF rec.neetcodeSolution # None
             THEN Result(f, rec.neetcodeSolution, FALSE, <<>>)
             ELSE LET sol == FetchSolution(titleSlug, rec.id, w)
                  IN IF sol.val # None
                     THEN Result(saveProblemCache(f, titleSlug,
                                   [rec EXCEPT !.neetcodeSolution = sol.val],
                                   "general"),
                                 sol.val, FALSE, sol.net)
                     ELSE Result(f, None, FALSE, sol.net)

fetchNeetCodeForCached(f, listing, titleSlug, w) ==
  LET cached == loadProblemCache(f, listing, titleSlug)
  IN IF cached.threw THEN Result(f, None, TRUE, <<>>)
     ELSE IF cached.val = None THEN Result(f, None, FALSE, <<>>)
     ELSE LET rec == cached.val[1]
          IN IF rec.neetcodeSolution # None
             THEN Result(f, rec.neetcodeSolution, FALSE, <<>>)
             ELSE LET sol == FetchSolution(titleSlug, rec.id, w)
                  IN IF sol.val # None
                     THEN Result(saveProblemCache(f, titleSlug,
                                   [rec EXCEPT !.neetcodeSolution = sol.val],
                                   IF rec.company # "" THEN rec.company ELSE "general"),
                                 sol.val, FALSE, sol.net)
                     ELSE Result(f, None, FALSE, sol.net)

\* what createPythonTemplateFile leaves behind: the cache, whether it threw,
\* the requests sent and the template written ("full" from a record, "basic"
\* without one, "none" when it threw before writing)
Made(f, threw, net, template) ==
  [fs |-> f, threw |-> threw, net |-> net, template |-> template]

\* the README.md, solution.py and answer.py written from what was found
WriteTemplate(f, net, problemData) ==
  IF problemData.threw THEN Made(f, TRUE, net, "none")
  ELSE IF problemData.val = None THEN Made(f, FALSE, net, "basic")
  ELSE Made(f, FALSE, net, "full")

\* a record without a solution has one looked for when fetchOnline holds,
\* and is then read again
UpdateSolution(r1, listing, slug, fetchOnline, w2) ==
  IF ~r1.threw /\ r1.val # None /\ fetchOnline /\ r1.val[1].neetcodeSolution = None
  THEN LET r2 == fetchNeetCodeForCached(r1.fs, listing, slug, w2)
       IN WriteTemplate(r2.fs, r1.net \o r2.net,
                        IF r2.threw THEN Threw
                        ELSE loadProblemCache(r2.fs, listing, slug))
  ELSE WriteTemplate(r1.fs, r1.net, [threw |-> r1.threw, val |-> r1.val])

\* the cache is read first; a record is fetched only when there is none and
\* fetchOnline holds
createPythonTemplateFile(f, listing, problem, fetchOnline, w1, w2) ==
  LET slug == extractSlug(problem.Link)
  IN IF slug = None THEN Made(f, FALSE, <<>>, "basic")
     ELSE LET first == loadProblemCache(f, listing, slug[1])
          IN IF first.threw THEN Made(f, TRUE, <<>>, "none")
             ELSE IF first.val = None /\ fetchOnline
             THEN UpdateSolution(
                    fetchAndCacheProblem(f, listing, problem.Link, "general", w1),
                    listing, slug[1], fetchOnline, w2)
             ELSE UpdateSolution(Result(f, first.val, FALSE, <<>>),
                                 listing, slug[1], fetchOnline, w2)

-----------------------------------------------------------------------------
(* The dataset directory and the commands of the tool *)

DataRow(title, difficulty, freq, link) ==
  [Title |-> title, Difficulty |-> difficulty, Frequency |-> freq, Link |-> link]

\* a link that holds no problem slug
ProblemSetLink == <<"https:", "", "leetcode.com", "problemset", "all">>

\* the rows of Amazon's "All" file: frequencies 10, 50, 5, 50, 1
AmazonAll ==
  << DataRow("Two Sum", "EASY", Some(<<"1", "0">>), ProblemLink("two-sum")),
     DataRow("LRU Cache", "MEDIUM", Some(<<"5", "0">>), ProblemLink("lru-cache")),
     DataRow("Problem Set", "EASY", Some(<<"5">>), ProblemSetLink),
     DataRow("3Sum", "MEDIUM", Some(<<"5", "0">>), ProblemLink("3sum")),
     DataRow("Untitled", "HARD", Some(<<"1">>), ProblemSetLink) >>

\* DATA_DIR: each company directory with its files in listing order; Meta
\* has no "All" file
DataDir(company) ==
  IF company = "Amazon"
  THEN << [name |-> Ordinal("1") \o ThirtyDays \o DotCsv, rows |-> <<AmazonAll[2]>>],
          [name |-> Ordinal("5") \o AllLabel \o DotCsv, rows |-> AmazonAll] >>
  ELSE << [name |-> Ordinal("1") \o ThirtyDays \o DotCsv, rows |-> <<AmazonAll[1]>>] >>

getCompanies == <<"Amazon", "Meta">>

\* String.prototype.toLowerCase on the company names in use
toLowerCase(name) ==
  CASE name \in {"Amazon", "AMAZON"} -> "amazon"
    [] name = "Meta" -> "meta"
    [] OTHER -> name

CompanyArgs == {"Amazon", "AMAZON", "Meta", "Netflix"}

\* --limit: not given, or a positive number
LimitArgs == {None} \cup {Some(n) : n \in 1..MaxLimit}

\* the company argument of fetchAndCacheProblem
FetchCompanies == {"general", "Amazon"}

\* an order in which a partition directory lists its files; which records
\* are on offer does not depend on it
FileListing == <<"3sum", "lru-cache", "two-sum">>

Links == {ProblemLink(s) : s \in Slugs} \cup {ProblemSetLink}

\* the rows a command hands to createPythonTemplateFile
TemplateRows == {AmazonAll[i] : i \in 1..4}

Did(op) == [NoOp EXCEPT !.op = op]

\* fetchAndCacheProblem called on its own
FetchCall(url, company, listing, w) ==
  /\ ~run.active
  /\ LET r == fetchAndCacheProblem(fs, listing, url, company, w)
     IN /\ fs' = r.fs
        /\ last' = [Did("fetchAndCacheProblem") EXCEPT
                      !.slug = extractSlug(url), !.online = TRUE,
                      !.threw = r.threw, !.net = r.net]
  /\ UNCHANGED <<call, arg, ret, run>>

\* fetchNeetCodeForCached called on its own
NeetCodeCall(titleSlug, listing, w) ==
  /\ ~run.active
  /\ LET r == fetchNeetCodeForCached(fs, listing, titleSlug, w)
     IN /\ fs' = r.fs
        /\ last' = [Did("fetchNeetCodeForCached") EXCEPT
                      !.slug = Some(titleSlug), !.online = TRUE,
                      !.threw = r.threw, !.net = r.net]
  /\ UNCHANGED <<call, arg, ret, run>>

\* createPythonTemplateFile on a row of the dataset (random pick or browse)
TemplateCall(problem, fetchOnline, listing, w1, w2) ==
  /\ ~run.active
  /\ LET r == createPythonTemplateFile(fs, listing, problem, fetchOnline, w1, w2)
     IN /\ fs' = r.fs
        /\ last' = [Did("createPythonTemplateFile") EXCEPT
                      !.slug = extractSlug(problem.Link), !.online = fetchOnline,
                      !.threw = r.threw, !.net = r.net, !.template = r.template]
  /\ UNCHANGED <<call, arg, ret, run>>

\* browse-cached: a record of the cache listing is picked, a mock problem
\* is built from it and the template is made with fetchOnline = false
BrowseCachedCall(listing, fileListing) ==
  /\ ~run.active
  /\ \E problemData \in Range(getAllCachedProblems(fs, listing, fileListing, None)) :
       LET problem == DataRow(problemData.title, problemData.difficulty, None,
                              ProblemLink(problemData.slug))
           r == createPythonTemplateFile(fs, listing, problem, FALSE,
                                         Unreachable, Unreachable)
       IN /\ fs' = r.fs
          /\ last' = [Did("createPythonTemplateFile") EXCEPT
                        !.slug = extractSlug(problem.Link), !.online = FALSE,
                        !.threw = r.threw, !.net = r.net, !.template = r.template]
  /\ UNCHANGED <<call, arg, ret, run>>

\* handleCacheCommand up to its loop: the company is matched, its "All"
\* file is read, ranked and cut
CacheStart(company, limit) ==
  /\ ~run.active
  /\ LET matches == SelectSeq(getCompanies,
                              LAMBDA c : toLowerCase(c) = toLowerCase(company))
     IN IF matches = <<>>
        THEN /\ run' = Idle
             /\ last' = Did("cache: company not found")
        ELSE LET loaded == loadProblems(DataDir(matches[1]), AllLabel)
             IN IF loaded.threw
                THEN /\ run' = Idle
                     /\ last' = [Did("cache") EXCEPT !.threw = TRUE]
                ELSE /\ run' = [active |-> TRUE, company |-> matches[1],
                                limit |-> limit,
                                problems |-> RankForCaching(loaded.val, limit),
                                i |-> 0, cached |-> 0, skipped |-> 0]
                     /\ last' = Did("cache")
  /\ UNCHANGED <<fs, call, arg, ret>>

\* one turn of the loop of handleCacheCommand; an exception leaves the loop
\* and the command
CacheIter(listing, w) ==
  /\ run.active
  /\ run.i < Len(run.problems)
  /\ LET problem == run.problems[run.i + 1]
         slug == extractSlug(problem.Link)
         did == [Did("cache: problem") EXCEPT !.slug = slug, !.online = TRUE]
     IN IF slug = None
        THEN /\ run' = [run EXCEPT !.i = run.i + 1]
             /\ last' = did
             /\ fs' = fs
        ELSE LET hit == loadProblemCache(fs, listing, slug[1])
             IN IF hit.threw
                THEN /\ run' = Idle
                     /\ last' = [did EXCEPT !.threw = TRUE]
                     /\ fs' = fs
                ELSE IF hit.val # None
                THEN /\ run' = [run EXCEPT !.i = run.i + 1,
                                           !.skipped = run.skipped + 1]
                     /\ last' = did
                     /\ fs' = fs
                ELSE LET r == fetchAndCacheProblem(fs, listing, problem.Link,
                                                   run.company, w)
                     IN IF r.threw
                        THEN /\ run' = Idle
                             /\ last' = [did EXCEPT !.threw = TRUE, !.net = r.net]
                             /\ fs' = r.fs
                        ELSE /\ run' = [run EXCEPT !.i = run.i + 1,
                                                   !.cached = run.cached + 1]
                             /\ last' = [did EXCEPT !.net = r.net]
                             /\ fs' = r.fs
  /\ UNCHANGED <<call, arg, ret>>

\* the loop is over: the summary is printed
CacheEnd ==
  /\ run.active
  /\ run.i >= Len(run.problems)
  /\ run' = Idle
  /\ last' = Did("cache: summary")
  /\ UNCHANGED <<fs, call, arg, ret>>

\* a cache directory as earlier runs of the tool can have left it: a slug
\* is in at most one partition, and a write that was interrupted has left a
\* text that does not parse
LeftKinds(s) ==
  {[kind |-> "absent", part |-> "general"]}
  \cup [kind : IF s = "lru-cache" THEN {"valid", "corrupt"} ELSE {"valid"},
        part : {"general", "Amazon"}]

LeftSlugs == {"two-sum", "lru-cache"}

LeftCaches ==
  {[root |-> TRUE,
    dirs |-> {left[s].part : s \in {t \in LeftSlugs : left[t].kind # "absent"}},
    files |-> [p \in Partitions |-> [s \in Slugs |->
                 IF s \in LeftSlugs /\ left[s].part = p
                 THEN DiskText(left[s].kind, p, s) ELSE None]]] :
     left \in {l \in [LeftSlugs -> UNION {LeftKinds(s) : s \in LeftSlugs}] :
                 \A s \in LeftSlugs : l[s] \in LeftKinds(s)}}

Init ==
  /\ fs \in LeftCaches
  /\ call = NoCall
  /\ arg = NoArg
  /\ ret = NoRet
  /\ run = Idle
  /\ last = NoOp

InitFresh ==
  /\ fs = EmptyCache
  /\ call = NoCall
  /\ arg = NoArg
  /\ ret = NoRet
  /\ run = Idle
  /\ last = NoOp

Next ==
  \/ \E url \in Links, company \in FetchCompanies, listing \in Listings, w \in Remote :
       FetchCall(url, company, listing, w)
  \/ \E titleSlug \in Slugs, listing \in Listings, w \in SolutionAnswers :
       NeetCodeCall(titleSlug, listing, w)
  \/ \E problem \in TemplateRows, listing \in Listings, a \in TemplateAnswers :
       TemplateCall(problem, TRUE, listing, a[1], a[2])
  \/ \E problem \in TemplateRows, listing \in Listings :
       TemplateCall(problem, FALSE, listing, Unreachable, Unreachable)
  \/ \E listing \in Listings : BrowseCachedCall(listing, FileListing)
  \/ \E company \in CompanyArgs, limit \in LimitArgs : CacheStart(company, limit)
  \/ \E listing \in Listings, w \in Remote : CacheIter(listing, w)
  \/ CacheEnd

\* the tool on a cache directory earlier runs have used
Spec == Init /\ [][Next]_vars

\* the tool on a cache directory that starts empty
SpecFresh == InitFresh /\ [][Next]_vars

-----------------------------------------------------------------------------
(* What each command of main selects before it acts: the company it works  *)
(* for and the list it offers or runs over (cli.js).                        *)

\* companies.find(c => c.toLowerCase() === company.toLowerCase())
findCompany(company) ==
  LET matches == SelectSeq(getCompanies,
                           LAMBDA c : toLowerCase(c) = toLowerCase(company))
  IN IF matches = <<>> THEN None ELSE Some(matches[1])

\* String.prototype.localeCompare on the partition names and titles in use:
\* the place of each in the collation order
Collation(text) ==
  CASE text = "3Sum" -> 1
    [] text = "Amazon" -> 2
    [] text = "general" -> 3
    [] text = "Google" -> 4
    [] text = "LRU Cache" -> 5
    [] text = "Problem Set" -> 6
    [] text = "Two Sum" -> 7
    [] text = "Untitled" -> 8
    [] OTHER -> 0

\* Array.prototype.sort with a comparator that is a total preorder: the
\* elements in comparator order, equal ones in their order of arrival.
\* cmp[j, i] is the comparator's value on the j-th and the i-th element,
\* None when it is NaN, which sort takes for 0.
SortWith(seq, cmp) ==
  LET n == Len(seq)
      v(j, i) == IF cmp[j, i] = None THEN 0 ELSE cmp[j, i][1]
      place(i) == 1 + Cardinality({j \in 1..n :
                                     \/ v(j, i) < 0
                                     \/ v(j, i) = 0 /\ j < i})
  IN [r \in 1..n |-> seq[CHOOSE i \in 1..n : place(i) = r]]

\* diffOrder of handleBrowseCommand: None (undefined) for any other key
DatasetDiffOrder(d) ==
  CASE d = "EASY" -> Some(1) [] d = "MEDIUM" -> Some(2) [] d = "HARD" -> Some(3)
    [] OTHER -> None

\* diffOrder of handleBrowseCachedCommand, on the difficulties LeetCode gives
CachedDiffOrder(d) ==
  CASE d = "Easy" -> Some(1) [] d = "Medium" -> Some(2) [] d = "Hard" -> Some(3)
    [] OTHER -> None

\* the comparator of handleBrowseCommand: difficulty, then title.  A
\* difference with undefined is NaN, which is not 0 and is returned.
compareRows(a, b) ==
  LET orderA == DatasetDiffOrder(a.Difficulty)
      orderB == DatasetDiffOrder(b.Difficulty)
  IN IF orderA = None \/ orderB = None THEN None
     ELSE IF orderA[1] - orderB[1] # 0 THEN Some(orderA[1] - orderB[1])
     ELSE Some(Collation(a.Title) - Collation(b.Title))

\* the comparator of handleBrowseCachedCommand: company, difficulty, title
compareCached(a, b) ==
  LET companyA == IF a.company # "" THEN a.company ELSE "general"
      companyB == IF b.company # "" THEN b.company ELSE "general"
      companyCompare == Collation(companyA) - Collation(companyB)
      orderA == CachedDiffOrder(a.difficulty)
      orderB == CachedDiffOrder(b.difficulty)
  IN IF companyCompare # 0 THEN Some(companyCompare)
     ELSE IF orderA = None \/ orderB = None THEN None
     ELSE IF orderA[1] - orderB[1] # 0 THEN Some(orderA[1] - orderB[1])
     ELSE Some(Collation(a.title) - Collation(b.title))

\* filtered.sort of handleBrowseCommand
SortRows(filtered) ==
  SortWith(filtered,
           [a \in 1..Len(filtered), b \in 1..Len(filtered) |->
              compareRows(filtered[a], filtered[b])])

\* filtered.sort of handleBrowseCachedCommand
SortCached(filtered) ==
  SortWith(filtered,
           [a \in 1..Len(filtered), b \in 1..Len(filtered) |->
              compareCached(filtered[a], filtered[b])])

\* the list handleBrowseCachedCommand offers; `company` and `difficulty` are
\* None or Some(text), as typed.  No cached problem at all: a warning and
\* nothing on offer.
handleBrowseCachedCommand(f, listing, fileListing, company, difficulty) ==
  LET cachedProblems == getAllCachedProblems(f, listing, fileListing, company)
      filtered == IF difficulty # None
                  THEN SelectSeq(cachedProblems,
                                 LAMBDA p : p.difficulty = difficulty[1])
                  ELSE cachedProblems
  IN IF cachedProblems = <<>> THEN <<>> ELSE SortCached(filtered)

\* the list handleCacheSolutionsCommand runs over
handleCacheSolutionsCommand(f, listing, fileListing, company) ==
  getAllCachedProblems(f, listing, fileListing, company)

\* the list handleBrowseCommand offers: the company's "All" rows of the
\* difficulty asked for, sorted.  No such company: an error message and
\* nothing on offer.
handleBrowseCommand(company, difficulty) ==
  LET matchedCompany == findCompany(company)
  IN IF matchedCompany = None THEN Ok(<<>>)
     ELSE LET problems == loadProblems(DataDir(matchedCompany[1]), AllLabel)
          IN IF problems.threw THEN problems
             ELSE LET filtered == IF difficulty # None
                                  THEN SelectSeq(problems.val,
                                         LAMBDA p : p.Difficulty = difficulty[1])
                                  ELSE problems.val
                  IN Ok(SortRows(filtered))

\* mutant: the difficulty asked for is not looked at
getRandomProblem_NoFilter(problems, difficulty) ==
  IF problems = <<>> THEN [threw |-> TRUE, val |-> <<>>] ELSE Ok(problems)

\* getRandomProblem: the rows of the difficulty asked for, from which
\* Math.random picks; none left: "No problems found with filters"
getRandomProblem(problems, difficulty) ==
  LET filtered == IF difficulty # None
                  THEN SelectSeq(problems, LAMBDA p : p.Difficulty = difficulty[1])
                  ELSE problems
  IN IF filtered = <<>> THEN [threw |-> TRUE, val |-> <<>>] ELSE Ok(filtered)

\* random generation up to the pick: the company is matched, the file of the
\* period is read and filtered
RandomGeneration(company, period, difficulty) ==
  LET matched == findCompany(company)
  IN IF matched = None THEN Ok(<<>>)
     ELSE LET problems == loadProblems(DataDir(matched[1]), period)
          IN IF problems.threw THEN problems
             ELSE getRandomProblem(problems.val, difficulty)

\* the list handleCacheCommand runs over
handleCacheCommand(company, limit) ==
  LET matchedCompany == findCompany(company)
  IN IF matchedCompany = None THEN Ok(<<>>)
     ELSE LET problems == loadProblems(DataDir(matchedCompany[1]), AllLabel)
          IN IF problems.threw THEN problems
             ELSE Ok(RankForCaching(problems.val, limit))

\* --difficulty: not given, or one of the choices yargs accepts
DifficultyArgs == {None, Some("EASY"), Some("MEDIUM"), Some("HARD")}

\* the [company] argument of browse-cached and cache-solutions
CachedCompanyArgs ==
  {None, Some("Amazon"), Some("AMAZON"), Some("general"), Some("Netflix")}

\* --period
PeriodArgs == {AllLabel, ThirtyDays}

Selected(op, company, difficulty, period, limit, listing, val) ==
  [op |-> op, company |-> company, difficulty |-> difficulty, period |-> period,
   limit |-> limit, listing |-> listing, val |-> val]

BrowseCachedList(company, difficulty, listing) ==
  /\ ret' = Selected("browse-cached", company, difficulty, <<>>, None, listing,
                     Ok(handleBrowseCachedCommand(fs, listing, FileListing,
                                                  company, difficulty)))
  /\ UNCHANGED <<fs, call, arg, run, last>>

CacheSolutionsList(company, listing) ==
  /\ ret' = Selected("cache-solutions", company, None, <<>>, None, listing,
                     Ok(handleCacheSolutionsCommand(fs, listing, FileListing, company)))
  /\ UNCHANGED <<fs, call, arg, run, last>>

BrowseList(company, difficulty) ==
  /\ ret' = Selected("browse", Some(company), difficulty, <<>>, None, <<>>,
                     handleBrowseCommand(company, difficulty))
  /\ UNCHANGED <<fs, call, arg, run, last>>

RandomList(company, period, difficulty) ==
  /\ ret' = Selected("random", Some(company), difficulty, period, None, <<>>,
                     RandomGeneration(company, period, difficulty))
  /\ UNCHANGED <<fs, call, arg, run, last>>

CacheList(company, limit) ==
  /\ ret' = Selected("cache", Some(company), None, <<>>, limit, <<>>,
                     handleCacheCommand(company, limit))
  /\ UNCHANGED <<fs, call, arg, run, last>>

InitSelect ==
  /\ fs \in LeftCaches
  /\ call = NoCall
  /\ arg = NoArg
  /\ ret = NoRet
  /\ run = Idle
  /\ last = NoOp

NextSelect ==
  \/ \E company \in CachedCompanyArgs, difficulty \in DifficultyArgs,
        listing \in Listings :
       BrowseCachedList(company, difficulty, listing)
  \/ \E company \in CachedCompanyArgs, listing \in Listings :
       CacheSolutionsList(company, listing)
  \/ \E company \in CompanyArgs, difficulty \in DifficultyArgs :
       BrowseList(company, difficulty)
  \/ \E company \in CompanyArgs, period \in PeriodArgs, difficulty \in DifficultyArgs :
       RandomList(company, period, difficulty)
  \/ \E company \in CompanyArgs, limit \in LimitArgs : CacheList(company, limit)

SpecSelect == InitSelect /\ [][NextSelect]_vars

-----------------------------------------------------------------------------
(* The test section of solution.py (cli.js) *)

\* a line of the test section: a comment or a print statement, live or
\* commented out, with the number of the test it is for
TestLine(kind, n, label, invocation) ==
  [kind |-> kind, n |-> n, label |-> label, call |-> invocation]

\* the call written into a print statement: the function and its arguments
\* (None: a placeholder for arguments is written)
TestCall(functionName, args) == [name |-> functionName, args |-> args]

\* the function name createPythonTemplateFile hands to generatePythonTestCases
TemplateFunctionName(problemData) ==
  LET pythonCode == FindPython(problemData.codeSnippets)
  IN IF pythonCode = None THEN Fallback
     ELSE extractPythonFunctionName(Some(pythonCode[1].code))

\* mutant: every slot up to 15 is written
generatePythonTestCases_AllSlots(problemData, functionName) ==
  LET testCases == parseTestCases(problemData)
  IN IF Len(testCases) > 0
     THEN Flatten([index \in 1..Len(testCases) |->
                     << TestLine("comment", index, "", None),
                        TestLine("print", index, "",
                                 Some(TestCall(functionName,
                                               Some(testCases[index].inputs)))) >>])
          \o Flatten([j \in 1..Cardinality((Len(testCases) + 1)..15) |->
                        << TestLine("comment", Len(testCases) + j,
                                    "Add your edge case", None),
                           TestLine("commented print", Len(testCases) + j, "",
                                    Some(TestCall(functionName, None))) >>])
     ELSE [i \in 1..15 |->
             TestLine("commented print", i, "Edge case",
                      Some(TestCall(functionName, None)))]

\* the numbered lines generatePythonTestCases writes, in order; the two
\* heading lines carry no number and are left out
generatePythonTestCases(problemData, functionName) ==
  LET testCases == parseTestCases(problemData)
      slots == (Len(testCases) + 1)..15
  IN IF Len(testCases) > 0
     THEN Flatten([index \in 1..Len(testCases) |->
                     << TestLine("comment", index, "", None),
                        TestLine("print", index, "",
                                 Some(TestCall(functionName,
                                               Some(testCases[index].inputs)))) >>])
          \o Flatten([j \in 1..Cardinality(slots) |->
                        LET i == Len(testCases) + j
                        IN IF i <= 10
                           THEN << TestLine("comment", i, "Add your edge case", None),
                                   TestLine("commented print", i, "",
                                            Some(TestCall(functionName, None))) >>
                           ELSE <<>>])
     ELSE [i \in 1..15 |->
             IF i <= 3
             THEN TestLine("print", i, "Example", Some(TestCall(functionName, None)))
             ELSE IF i <= 10
             THEN TestLine("commented print", i, "Edge case",
                           Some(TestCall(functionName, None)))
             ELSE TestLine("commented print", i, "Additional",
                           Some(TestCall(functionName, None)))]

GenerateTestsCall ==
  /\ ret' = [op |-> "generatePythonTestCases", code |-> None,
             val |-> generatePythonTestCases(arg, TemplateFunctionName(arg))]
  /\ UNCHANGED <<fs, call, arg, run, last>>

NextTests == GenerateTestsCall

\* example texts of more lines than there are slots
MaxExamples == 12

LongExampleTexts ==
  {JoinLines([i \in 1..n |-> LineOf("literal", i)]) : n \in 9..MaxExamples}

InitTests ==
  /\ fs = EmptyCache
  /\ call = NoCall
  /\ arg \in [codeSnippets : SnippetLists,
               exampleTestcases : ExampleTexts \cup LongExampleTexts]
  /\ ret = NoRet
  /\ run = Idle
  /\ last = NoOp

\* generatePythonTestCases on the problem data of SpecText and on longer
\* example texts
SpecTests == InitTests /\ [][NextTests]_vars

-----------------------------------------------------------------------------
(* Whole runs of handleCacheCommand, one after another *)

\* what a run has done so far: the cache, whether an exception ended it, the
\* requests sent, the two counters, and how many fetches brought nothing
Progress(f, threw, net, cached, skipped, nulls) ==
  [fs |-> f, threw |-> threw, net |-> net, cached |-> cached,
   skipped |-> skipped, nulls |-> nulls]

\* the loop of handleCacheCommand from item i to its end; ws[slug] is what
\* the remote services answer about a slug during the run
RECURSIVE CacheLoop(_, _, _, _, _, _)
CacheLoop(done, listing, problems, company, ws, i) ==
  IF i > Len(problems) THEN done
  ELSE LET slug == extractSlug(problems[i].Link)
       IN IF slug = None
          THEN CacheLoop(done, listing, problems, company, ws, i + 1)
          ELSE LET hit == loadProblemCache(done.fs, listing, slug[1])
               IN IF hit.threw THEN [done EXCEPT !.threw = TRUE]
                  ELSE IF hit.val # None
                  THEN CacheLoop([done EXCEPT !.skipped = @ + 1],
                                 listing, problems, company, ws, i + 1)
                  ELSE LET r == fetchAndCacheProblem(done.fs, listing,
                                  problems[i].Link, company, ws[slug[1]])
                       IN IF r.threw
                          THEN [done EXCEPT !.threw = TRUE, !.net = @ \o r.net]
                          ELSE CacheLoop(
                                 Progress(r.fs, FALSE, done.net \o r.net,
                                          done.cached + 1, done.skipped,
                                          done.nulls + IF r.val = None THEN 1 ELSE 0),
                                 listing, problems, company, ws, i + 1)

\* what the remote answers about a slug while a run lasts
RunAnswers == [Slugs -> {Unreachable, Answer(TRUE, TRUE, FALSE)}]

\* no command has run
NoRun == [op |-> "none"]

\* the dataset does not change: the list of every company and limit, and
\* the company every name stands for
CommandLists ==
  [company \in CompanyArgs, limit \in LimitArgs |-> handleCacheCommand(company, limit)]

MatchedCompany == [company \in CompanyArgs |-> findCompany(company)]

\* the command before the one that is starting, when it was a run of
\* handleCacheCommand that went through with every fetch bringing its record
PreviousRun ==
  IF ret.op = "cache" /\ ret.company # None /\ ~ret.threw /\ ret.nulls = 0
  THEN [op |-> "cache", company |-> ret.company, limit |-> ret.limit]
  ELSE NoRun

\* a whole run of handleCacheCommand; `call` keeps what ran before it
CacheRun(company, limit, listing, ws) ==
  LET problems == CommandLists[company, limit]
      matched == MatchedCompany[company]
  IN IF matched = None \/ problems.threw
     THEN /\ ret' = [op |-> "cache", company |-> matched, limit |-> limit,
                     threw |-> problems.threw, net |-> <<>>, wrote |-> FALSE,
                     cached |-> 0, skipped |-> 0, nulls |-> 0]
          /\ call' = PreviousRun
          /\ fs' = fs
          /\ UNCHANGED <<arg, run, last>>
     ELSE LET r == CacheLoop(Progress(fs, FALSE, <<>>, 0, 0, 0), listing,
                             problems.val, matched[1], ws, 1)
          IN /\ ret' = [op |-> "cache", company |-> matched, limit |-> limit,
                        threw |-> r.threw, net |-> r.net, wrote |-> r.fs # fs,
                        cached |-> r.cached, skipped |-> r.skipped,
                        nulls |-> r.nulls]
             /\ call' = PreviousRun
             /\ fs' = r.fs
             /\ UNCHANGED <<arg, run, last>>

\* fetchAndCacheProblem called on its own, with what it returned
FetchOnce(url, company, listing, w) ==
  LET r == fetchAndCacheProblem(fs, listing, url, company, w)
  IN /\ ret' = [op |-> "fetchAndCacheProblem", slug |-> extractSlug(url),
                w |-> w, val |-> r.val, threw |-> r.threw, net |-> r.net,
                wrote |-> r.fs # fs, before |-> fs]
     /\ call' = PreviousRun
     /\ fs' = r.fs
     /\ UNCHANGED <<arg, run, last>>

InitRerun ==
  /\ fs \in LeftCaches
  /\ call = NoRun
  /\ arg = NoArg
  /\ ret = NoRet
  /\ run = Idle
  /\ last = NoOp

NextRerun ==
  \/ \E company \in CompanyArgs, limit \in LimitArgs, listing \in Listings,
        ws \in RunAnswers :
       CacheRun(company, limit, listing, ws)
  \/ \E url \in Links, company \in FetchCompanies, listing \in Listings,
        w \in {Unreachable, Answer(TRUE, TRUE, FALSE)} :
       FetchOnce(url, company, listing, w)

SpecRerun == InitRerun /\ [][NextRerun]_vars

-----------------------------------------------------------------------------
(* Single calls of the two cache-filling functions, with what they return *)

\* fetchNeetCodeForCached called on its own, with what it returned
NeetCodeOnce(titleSlug, listing, w) ==
  LET r == fetchNeetCodeForCached(fs, listing, titleSlug, w)
  IN /\ ret' = [op |-> "fetchNeetCodeForCached", slug |-> Some(titleSlug),
                w |-> w, val |-> r.val, threw |-> r.threw, net |-> r.net,
                wrote |-> r.fs # fs, before |-> fs]
     /\ call' = NoRun
     /\ fs' = r.fs
     /\ UNCHANGED <<arg, run, last>>

NextFetch ==
  \/ \E url \in Links, company \in FetchCompanies, listing \in Listings, w \in Remote :
       FetchOnce(url, company, listing, w)
  \/ \E titleSlug \in Slugs, listing \in Listings, w \in SolutionAnswers :
       NeetCodeOnce(titleSlug, listing, w)

SpecFetch == InitRerun /\ [][NextFetch]_vars

-----------------------------------------------------------------------------
(* How the two solution fetchers build a payload from what a page holds    *)
(* (scraper.js).  A candidate is a code text as it stands after the        *)
(* clean-up replacements: its text, what it includes, and its length.       *)

Code(text, hasDef, hasClass, length) ==
  [text |-> text, hasDef |-> hasDef, hasClass |-> hasClass, length |-> length]

\* code texts a page may hold: two solutions, a class without a method, a
\* short fragment, a text of 31 to 50 characters, and one of 5000 or more
CodeBlocks ==
  {Code("brute force", TRUE, TRUE, 400), Code("hash map", TRUE, TRUE, 300),
   Code("class only", FALSE, TRUE, 120), Code("fragment", TRUE, FALSE, 20),
   Code("one-liner", TRUE, FALSE, 40), Code("whole page", TRUE, TRUE, 6000)}

\* mutant: the list is not deduplicated
Unique_KeepAll(solutions) == solutions

\* [...new Set(solutions)]: each text once, in the order of first arrival
RECURSIVE Unique(_)
Unique(solutions) ==
  IF solutions = <<>> THEN <<>>
  ELSE LET front == Unique(SubSeq(solutions, 1, Len(solutions) - 1))
           x == solutions[Len(solutions)]
       IN IF x \in Range(front) THEN front ELSE Append(front, x)

\* None for null
Payload(solutions, optimalSolution, source) ==
  [solutions |-> solutions, optimalSolution |-> optimalSolution, source |-> source]

\* fetchNeetCodeSolution on the matches of the class pattern in the page, in
\* page order; a page that cannot be fetched has no match
fetchNeetCodeSolution(classMatches) ==
  LET kept == SelectSeq(classMatches,
                        LAMBDA code : code.hasDef /\ code.length > 50
                                      /\ code.length < 5000)
      solutions == [i \in 1..Len(kept) |-> kept[i].text]
      uniqueSolutions == Unique(solutions)
  IN IF uniqueSolutions = <<>> THEN None
     ELSE Some(Payload(uniqueSolutions, uniqueSolutions[Len(uniqueSolutions)], ""))

\* the fence tags the first split of fetchLeetCodeDiscussionSolution finds
\* ('```Python3') and those the second finds (/```(?:python3?|Python)/i)
ExactTag == {"Python3"}
AnyCaseTag == {"Python3", "python"}

\* the code blocks of one post that a split finds, filtered
PostSolutions(blocks, found) ==
  LET kept == SelectSeq(blocks,
                        LAMBDA b : /\ b.tag \in found
                                   /\ b.closed
                                   /\ (b.code.hasClass \/ b.code.hasDef)
                                   /\ b.code.length > 30)
  IN [i \in 1..Len(kept) |-> kept[i].code.text]

\* fetchLeetCodeDiscussionSolution on the posts returned, most voted first,
\* each a sequence of fenced blocks; a request that fails returns no post
fetchLeetCodeDiscussionSolution(edges) ==
  LET solutions == Flatten([e \in 1..Len(edges) |->
                              PostSolutions(edges[e], ExactTag)
                              \o PostSolutions(edges[e], AnyCaseTag)])
      uniqueSolutions == Unique(solutions)
  IN IF uniqueSolutions = <<>> THEN None
     ELSE Some(Payload(uniqueSolutions, uniqueSolutions[1], "leetcode_discussion"))

\* `first: 3`: the posts the discussion request asks for
MaxPosts == 3

\* class matches in a page, and code blocks in the posts returned
MaxMatches == 3
MaxBlocks == 3

Block(tag, closed, code) == [tag |-> tag, closed |-> closed, code |-> code]

\* fenced blocks a post may hold
Blocks ==
  {Block("Python3", TRUE, Code("brute force", TRUE, TRUE, 400)),
   Block("Python3", TRUE, Code("hash map", TRUE, TRUE, 300)),
   Block("python", TRUE, Code("hash map", TRUE, TRUE, 300)),
   Block("python", TRUE, Code("class only", FALSE, TRUE, 120)),
   Block("java", TRUE, Code("brute force", TRUE, TRUE, 400)),
   Block("Python3", FALSE, Code("two pointers", TRUE, TRUE, 200)),
   Block("Python3", TRUE, Code("fragment", TRUE, FALSE, 20))}

\* the matches of /class Solution:.../ start with the class line
ClassMatches == {code \in CodeBlocks : code.hasClass}

Pages ==
  UNION {[1..n -> ClassMatches] : n \in 0..MaxMatches}

\* the posts of an answer: n posts over which the blocks are spread in order
PostsOf(blocks, owner, n) ==
  [p \in 1..n |-> LET mine == {i \in 1..Len(blocks) : owner[i] = p}
                      at(k) == CHOOSE i \in mine :
                                 Cardinality({j \in mine : j <= i}) = k
                  IN [k \in 1..Cardinality(mine) |-> blocks[at(k)]]]

Answers ==
  UNION {UNION {{PostsOf(blocks, owner, n) :
                   owner \in {o \in [1..k -> 1..n] :
                                \A i, j \in 1..k : i <= j => o[i] <= o[j]}} :
                  blocks \in [1..k -> Blocks], n \in 0..MaxPosts} :
           k \in 0..MaxBlocks}

NeetCodeSolutionCall ==
  /\ arg.from = "neetcode"
  /\ ret' = [op |-> "fetchNeetCodeSolution",
             val |-> fetchNeetCodeSolution(arg.page)]
  /\ UNCHANGED <<fs, call, arg, run, last>>

DiscussionSolutionCall ==
  /\ arg.from = "discussion"
  /\ ret' = [op |-> "fetchLeetCodeDiscussionSolution",
             val |-> fetchLeetCodeDiscussionSolution(arg.page)]
  /\ UNCHANGED <<fs, call, arg, run, last>>

\* the comments and the code generateAnswerContent writes into answer.py:
\* the `# Source:` line of the header, the line that introduces the body,
\* the solution and the other approaches
generateAnswerContent(problemData, slug) ==
  LET solution == problemData.neetcodeSolution
  IN IF solution # None /\ solution[1].optimalSolution # ""
     THEN [source |-> "NeetCode.io",
           heading |-> "Optimal Solution from NeetCode",
           optimalSolution |-> Some(solution[1].optimalSolution),
           alternatives |->
             IF Len(solution[1].solutions) > 1
             THEN SelectSeq(solution[1].solutions,
                            LAMBDA sol : sol # solution[1].optimalSolution)
             ELSE <<>>]
     ELSE [source |-> "NeetCode.io",
           heading |-> "No automated solution available for this problem.",
           optimalSolution |-> None,
           alternatives |-> <<>>]

\* answer.py written from a record that holds the payload a fetcher has
\* just returned
AnswerContentCall ==
  /\ ret.op \in {"fetchNeetCodeSolution", "fetchLeetCodeDiscussionSolution"}
  /\ ret' = [op |-> "generateAnswerContent", solution |-> ret.val,
             val |-> generateAnswerContent(
                       Processed(Question("two-sum"), ret.val, "general"),
                       "two-sum")]
  /\ UNCHANGED <<fs, call, arg, run, last>>

InitPayload ==
  /\ fs = EmptyCache
  /\ call = NoCall
  /\ arg \in {[from |-> "neetcode", page |-> p] : p \in Pages}
             \cup {[from |-> "discussion", page |-> e] : e \in Answers}
  /\ ret = NoRet
  /\ run = Idle
  /\ last = NoOp

NextPayload == NeetCodeSolutionCall \/ DiscussionSolutionCall \/ AnswerContentCall

SpecPayload == InitPayload /\ [][NextPayload]_vars

-----------------------------------------------------------------------------
(* The files createPythonTemplateFile writes into the problem folder *)

\* README.md and solution.py are written whatever was found; answer.py is
\* written from the record, or with links only, when the link holds a slug;
\* a call that raised while reading the cache has written nothing
Documents(slug, template) ==
  IF template = "none" THEN {}
  ELSE {"README.md", "solution.py"}
       \cup (IF slug # None THEN {"answer.py"} ELSE {})

-----------------------------------------------------------------------------
(* The two bulk loops step by step (cli.js): handleCacheCommand over the    *)
(* ranked rows of a company, handleCacheSolutionsCommand over the cached    *)
(* records.  Every `await` of a loop is a step of its own, and what a run   *)
(* does on the network and on the clock is kept in order: a request of an   *)
(* item, a wait of so many milliseconds, an item passed over.               *)

\* setTimeout of handleCacheCommand, of handleCacheSolutionsCommand and of
\* fetchAndCacheProblem, in milliseconds
CacheDelay == 1500
SolutionsDelay == 1000
FetchDelay == 1000

Event(kind, item, what) == [kind |-> kind, item |-> item, what |-> what]

\* the requests a call sent while item i was processed
Requests(net, i) == [k \in 1..Len(net) |-> Event("request", i, net[k][1])]

\* mutant: the loop goes on to the next item without waiting
RateLimit_None(events, i, ms) == events

\* await new Promise(resolve => setTimeout(resolve, ms)) at the end of a turn
RateLimit(events, i, ms) == Append(events, Event("delay", i, ms))

\* no bulk command is running
NoBulk == [op |-> "none", pc |-> "done", company |-> None, items |-> <<>>, i |-> 0,
           cached |-> 0, skipped |-> 0, fetched |-> 0, failed |-> 0,
           start |-> EmptyCache, events |-> <<>>]

\* handleCacheCommand up to its loop
CacheBulkStart(company, limit) ==
  /\ run.pc \in {"done", "threw"}
  /\ MatchedCompany[company] # None
  /\ ~CommandLists[company, limit].threw
  /\ run' = [NoBulk EXCEPT !.op = "cache", !.pc = "test",
                           !.company = MatchedCompany[company],
                           !.items = CommandLists[company, limit].val,
                           !.start = fs]
  /\ UNCHANGED <<fs, call, arg, ret, last>>

\* handleCacheSolutionsCommand up to its loop; nothing cached: a warning
SolutionsBulkStart(company, listing) ==
  /\ run.pc \in {"done", "threw"}
  /\ LET cachedProblems == handleCacheSolutionsCommand(fs, listing, FileListing, company)
     IN run' = [NoBulk EXCEPT !.op = "cache-solutions",
                              !.pc = IF cachedProblems = <<>> THEN "done" ELSE "test",
                              !.company = company,
                              !.items = cachedProblems,
                              !.start = fs]
  /\ UNCHANGED <<fs, call, arg, ret, last>>

\* the head of a turn: the item is passed over, or is to be fetched
BulkTest(listing) ==
  /\ run.pc = "test"
  /\ run.i < Len(run.items)
  /\ LET problem == run.items[run.i + 1]
         skip == [run EXCEPT !.i = @ + 1, !.skipped = @ + 1,
                             !.events = Append(@, Event("skip", run.i, ""))]
     IN IF run.op = "cache"
        THEN LET slug == extractSlug(problem.Link)
             IN IF slug = None THEN run' = [run EXCEPT !.i = @ + 1]
                ELSE LET hit == loadProblemCache(fs, listing, slug[1])
                     IN IF hit.threw THEN run' = [run EXCEPT !.pc = "threw"]
                        ELSE IF hit.val # None THEN run' = skip
                        ELSE run' = [run EXCEPT !.pc = "fetch"]
        ELSE IF problem.neetcodeSolution # None THEN run' = skip
             ELSE run' = [run EXCEPT !.pc = "fetch"]
  /\ UNCHANGED <<fs, call, arg, ret, last>>

\* await fetchAndCacheProblem(problem.Link, matchedCompany), which waits
\* after it has saved, or await fetchNeetCodeForCached(problem.slug)
BulkFetch(listing, w) ==
  /\ run.pc = "fetch"
  /\ LET problem == run.items[run.i + 1]
     IN IF run.op = "cache"
        THEN LET r == fetchAndCacheProblem(fs, listing, problem.Link,
                                           run.company[1], w)
                 sent == run.events \o Requests(r.net, run.i)
             IN /\ fs' = r.fs
                /\ run' = IF r.threw THEN [run EXCEPT !.pc = "threw", !.events = sent]
                          ELSE [run EXCEPT
                                  !.pc = "delay", !.cached = @ + 1,
                                  !.events = IF r.val # None
                                             THEN RateLimit(sent, run.i, FetchDelay)
                                             ELSE sent]
        ELSE LET r == fetchNeetCodeForCached(fs, listing, problem.slug, w)
                 sent == run.events \o Requests(r.net, run.i)
             IN /\ fs' = r.fs
                /\ run' = IF r.threw THEN [run EXCEPT !.pc = "threw", !.events = sent]
                          ELSE IF r.val # None
                          THEN [run EXCEPT !.pc = "delay", !.fetched = @ + 1,
                                           !.events = sent]
                          ELSE [run EXCEPT !.pc = "delay", !.failed = @ + 1,
                                           !.events = sent]
  /\ UNCHANGED <<call, arg, ret, last>>

\* the wait that ends a turn in which a fetch was made
BulkDelay ==
  /\ run.pc = "delay"
  /\ run' = [run EXCEPT !.pc = "test", !.i = @ + 1,
                        !.events = RateLimit(@, run.i,
                                     IF run.op = "cache" THEN CacheDelay
                                     ELSE SolutionsDelay)]
  /\ UNCHANGED <<fs, call, arg, ret, last>>

\* the loop is over: the summary is printed
BulkEnd ==
  /\ run.pc = "test"
  /\ run.i >= Len(run.items)
  /\ run' = [run EXCEPT !.pc = "done"]
  /\ UNCHANGED <<fs, call, arg, ret, last>>

InitBulk ==
  /\ fs \in LeftCaches
  /\ call = NoCall
  /\ arg = NoArg
  /\ ret = NoRet
  /\ run = NoBulk
  /\ last = NoOp

NextBulk ==
  \/ \E company \in CompanyArgs, limit \in LimitArgs : CacheBulkStart(company, limit)
  \/ \E company \in CachedCompanyArgs, listing \in Listings :
       SolutionsBulkStart(company, listing)
  \/ \E listing \in Listings : BulkTest(listing)
  \/ \E listing \in Listings, w \in Remote : BulkFetch(listing, w)
  \/ BulkDelay
  \/ BulkEnd

SpecBulk == InitBulk /\ [][NextBulk]_vars

-----------------------------------------------------------------------------
(* The two sorts applied to every short list of rows and of cached records *)

MaxSorted == 3

\* the spellings of the three levels: one per source of records
Casings == {<<"EASY", "MEDIUM", "HARD">>, <<"Easy", "Medium", "Hard">>}

\* the rows of a dataset file, which spells its levels one way throughout
DatasetLists ==
  UNION {[1..n -> {DataRow(t, casing[k], None, ProblemSetLink) :
                     t \in {"3Sum", "LRU Cache", "Two Sum"}, k \in 1..3}] :
           n \in 0..MaxSorted, casing \in Casings}

\* cached records, as far as the sort reads them: the levels as LeetCode
\* spells them, the company possibly empty
CachedLists ==
  UNION {[1..n -> [company : {"", "general", "Amazon"},
                   difficulty : {"Easy", "Medium", "Hard"},
                   title : {"LRU Cache", "Two Sum"}]] : n \in 0..MaxSorted}

SortRowsCall ==
  /\ arg \in DatasetLists
  /\ ret' = [op |-> "handleBrowseCommand", val |-> SortRows(arg)]
  /\ UNCHANGED <<fs, call, arg, run, last>>

SortCachedCall ==
  /\ arg \in CachedLists
  /\ ret' = [op |-> "handleBrowseCachedCommand", val |-> SortCached(arg)]
  /\ UNCHANGED <<fs, call, arg, run, last>>

\* getRandomProblem with the row Math.random picks: the k-th of those left
RandomCall(difficulty, k) ==
  /\ arg \in DatasetLists
  /\ LET filtered == getRandomProblem(arg, difficulty)
     IN /\ filtered.threw \/ k <= Len(filtered.val)
        /\ ret' = [op |-> "getRandomProblem", difficulty |-> difficulty,
                   threw |-> filtered.threw,
                   val |-> IF filtered.threw THEN None ELSE Some(filtered.val[k])]
  /\ UNCHANGED <<fs, call, arg, run, last>>

InitOrder ==
  /\ fs = EmptyCache
  /\ call = NoCall
  /\ arg \in DatasetLists \cup CachedLists
  /\ ret = NoRet
  /\ run = Idle
  /\ last = NoOp

NextOrder ==
  \/ SortRowsCall
  \/ SortCachedCall
  \/ \E difficulty \in DifficultyArgs \cup {Some("Easy")}, k \in 1..MaxSorted :
       RandomCall(difficulty, k)

SpecOrder == InitOrder /\ [][NextOrder]_vars

-----------------------------------------------------------------------------
(* The claims *)

\* the partitions other than p that hold a file for slug
OtherHolders(slug, p) == {q \in fs.dirs \ {p} : fs.files[q][slug] # None}

\* the load call that immediately follows a save of the same slug
LoadAfterSave ==
  /\ call.op = "load"
  /\ call.after # None
  /\ call.after[1].slug = call.slug

\* C1 as stated: saveProblemCache(slug, r, p) followed immediately by
\* loadProblemCache(slug) returns r, whatever the cache held before, other
\* partitions with a file for the same slug included.
C1_Original == LoadAfterSave => call.res = Ok(call.after[1].rec)

\* C1 as amended: saveProblemCache(slug, r, p) followed immediately by
\* loadProblemCache(slug) returns a record equal to r for any prior cache
\* contents in which no partition other than p holds a file for slug, however
\* many other partitions exist.
C1_SaveThenLoad ==
  (LoadAfterSave /\ OtherHolders(call.slug, call.after[1].part) = {})
    => call.res = Ok(call.after[1].rec)

\* a load right after a save into a cache with two other partitions, both
\* holding files, none of them for the saved slug
C1_Witness ==
  /\ LoadAfterSave
  /\ OtherHolders(call.slug, call.after[1].part) = {}
  /\ Cardinality({q \in fs.dirs \ {call.after[1].part} :
                    \E s \in Slugs : fs.files[q][s] # None}) = 2
  /\ call.res = Ok(call.after[1].rec)

\* C3: a read that finds nothing returns an empty result and does not raise:
\* loadProblemCache(slug) returns null when no partition holds a file for
\* slug (cache root missing or without partitions included), and
\* getAllCachedProblems(p) returns the empty list when partition p does not
\* exist.
C3_NothingFoundIsEmpty ==
  /\ (call.op = "load" /\ \A p \in Partitions : fs.files[p][call.slug] = None)
       => call.res = Ok(None)
  /\ (call.op = "list" /\ call.part # "" /\ call.part \notin fs.dirs)
       => call.res = Ok(<<>>)

\* a load of a slug no partition holds, in a cache whose partitions all exist
\* and hold a file that does not parse for another slug
C3_Witness ==
  /\ call.op = "load"
  /\ fs.dirs = Partitions
  /\ \A p \in Partitions : fs.files[p][call.slug] = None
  /\ \A p \in Partitions : \E s \in Slugs : fs.files[p][s] = Some(CorruptText)
  /\ call.res = Ok(None)

\* the cache files a listing with filter `part` ("" for none) enumerates
Enumerated(part) ==
  {ps \in fs.dirs \X Slugs :
     /\ fs.files[ps[1]][ps[2]] # None
     /\ part # "" => ps[1] = part}

\* C4: getAllCachedProblems, with or without a partition filter, returns
\* exactly the records of the parseable files it enumerates, one record per
\* parseable file, skips every file that does not parse and does not raise.
C4_ListSkipsUnparseable ==
  call.op = "list" =>
    LET good == {ps \in Enumerated(call.part) : fs.files[ps[1]][ps[2]][1].parseable}
    IN /\ ~call.res.threw
       /\ Len(call.res.val) = Cardinality(good)
       /\ Range(call.res.val) = {fs.files[ps[1]][ps[2]][1].value : ps \in good}

\* a listing over a cache with one file that does not parse and two that do
\* returns the two records
C4_Witness ==
  /\ call.op = "list"
  /\ call.part = ""
  /\ Cardinality(Enumerated("")) = 3
  /\ Cardinality({ps \in Enumerated("") : ~fs.files[ps[1]][ps[2]][1].parseable}) = 1
  /\ Len(call.res.val) = 2

\* the rank the claim gives a Frequency field: its integer value, 0 when the
\* field is absent or is no number
C7_Key(field) ==
  CASE field = Some(<<"5", "0">>) -> 50
    [] field = Some(<<"1", "0">>) -> 10
    [] field = Some(<<"5">>) -> 5
    [] field = Some(<<"5", ".", "9">>) -> 5
    [] field = Some(<<"1">>) -> 1
    [] OTHER -> 0

\* the position of row x in the list l
C7_Pos(l, x) == CHOOSE i \in 1..Len(l) : l[i] = x

\* C7: the frequency ranking is a stable sort: the output is a permutation
\* of the input in non-increasing order of integer-parsed Frequency (absent
\* or unparseable counting as 0), and two rows of equal frequency keep their
\* relative order.
C7_StableRanking ==
  (ret.op = "rank" /\ ret.limit = None) =>
    /\ Len(ret.val) = Len(arg)
    /\ Range(ret.val) = Range(arg)
    /\ \A i, j \in 1..Len(ret.val) :
         i < j => C7_Key(ret.val[i].Frequency) >= C7_Key(ret.val[j].Frequency)
    /\ \A i, j \in 1..Len(arg) :
         (i < j /\ C7_Key(arg[i].Frequency) = C7_Key(arg[j].Frequency))
           => C7_Pos(ret.val, arg[i]) < C7_Pos(ret.val, arg[j])

\* a ranking that moved a row forward past two rows that tie, one of them
\* through a Frequency that is absent
C7_Witness ==
  /\ ret.op = "rank"
  /\ ret.limit = None
  /\ Len(arg) = 4
  /\ arg[1].Frequency = Some(<<"n", "/", "a">>)
  /\ arg[2].Frequency = None
  /\ arg[3].Frequency = Some(<<"5", "0">>)
  /\ arg[4].Frequency = Some(<<"5", ".", "9">>)
  /\ ret.val = <<arg[3], arg[4], arg[1], arg[2]>>

\* the file name is the period label with the .csv extension, behind an
\* ordinal prefix (digits and dots, then white space) or none
C10_Names(name, label) ==
  \E k \in 0..Len(name) :
    /\ SubSeq(name, k + 1, Len(name)) = label \o DotCsv
    /\ \/ /\ k = 0
          /\ ~\E n \in 1..Len(name) :
                /\ \A i \in 1..n : name[i] \in Digits \cup {"."}
                /\ n < Len(name) /\ name[n + 1] \in Spaces
       \/ /\ k >= 2
          /\ \E n \in 1..(k - 1) :
                /\ \A i \in 1..n : name[i] \in Digits \cup {"."}
                /\ \A i \in (n + 1)..k : name[i] \in Spaces
          /\ name[k + 1] \notin Spaces

\* C10: loadProblems(company, period) fails with the period-not-found error
\* if and only if no CSV file of the company directory is named, behind its
\* ordinal prefix and before its .csv extension, exactly by the period label
\* (case-sensitive); otherwise it returns the rows of a matching file in file
\* order.
C10_PeriodMustMatchExactly ==
  ret.op = "loadProblems" =>
    LET matches == {i \in 1..Len(arg.dir) : C10_Names(arg.dir[i].name, arg.period)}
    IN /\ ret.val.threw <=> matches = {}
       /\ ~ret.val.threw => \E i \in matches : ret.val.val = arg.dir[i].rows

\* the label "30 Days" asked of a directory whose file is "1. Thirty Days.csv"
C10_Witness ==
  /\ ret.op = "loadProblems"
  /\ arg.period = ThirtyDaysDigits
  /\ Len(arg.dir) = 1
  /\ arg.dir[1].name = Ordinal("1") \o ThirtyDays \o DotCsv
  /\ ret.val.threw

\* the number of parameters after self in the first method signature of a
\* template: the comma-separated pieces between "(self," and the next ")",
\* 0 when there is no such non-empty text
C8_ParamCount(code) ==
  CASE code = TwoSumCode -> 2
    [] code = LruCacheCode -> 1
    [] code = BlankParamCode -> 1
    [] code = SpreadCode -> 3
    [] code = HelperFirstCode -> 1
    [] code = DefaultsCode -> 2
    [] OTHER -> 0

\* the python3 or python template of the problem, empty when it has none
C8_Template ==
  LET idx == {i \in 1..Len(arg.codeSnippets) :
                arg.codeSnippets[i].langSlug \in {"python3", "python"}}
  IN IF idx = {} THEN <<>>
     ELSE arg.codeSnippets[CHOOSE i \in idx : \A j \in idx : i <= j].code

\* the non-blank lines of a text, in order: its longest newline-free
\* stretches that hold a character other than white space
C8_Lines(s) ==
  LET segs == {x \in (1..Len(s)) \X (1..Len(s)) :
                 /\ x[1] <= x[2]
                 /\ x[1] = 1 \/ s[x[1] - 1] = "\n"
                 /\ x[2] = Len(s) \/ s[x[2] + 1] = "\n"
                 /\ \A p \in x[1]..x[2] : s[p] # "\n"
                 /\ \E p \in x[1]..x[2] : s[p] \notin Spaces}
  IN [j \in 1..Cardinality(segs) |->
        LET sg == CHOOSE x \in segs : Cardinality({y \in segs : y[1] < x[1]}) = j - 1
        IN SubSeq(s, sg[1], sg[2])]

\* C8: with k >= 1 extracted parameters and n non-blank example lines,
\* parseTestCases returns exactly floor(n / k) test cases, case j (from 0)
\* holding lines j*k .. j*k+k-1 in their order, a shorter trailing group
\* being dropped; with no parameter list to extract it returns the empty list.
C8_GroupsOfParamCount ==
  ret.op = "parseTestCases" =>
    LET k == C8_ParamCount(C8_Template)
        lines == C8_Lines(arg.exampleTestcases)
    IN IF k = 0 THEN ret.val = <<>>
       ELSE /\ Len(ret.val) = Len(lines) \div k
            /\ \A j \in 0..(Len(ret.val) - 1) :
                 /\ ret.val[j + 1].inputs = SubSeq(lines, j * k + 1, j * k + k)
                 /\ Len(ret.val[j + 1].params) = k

\* five non-blank lines among six, two parameters: two cases, the fifth
\* line dropped
C8_Witness ==
  /\ ret.op = "parseTestCases"
  /\ C8_Template = TwoSumCode
  /\ Len(C8_Lines(arg.exampleTestcases)) = 5
  /\ Len(arg.exampleTestcases) > 14
  /\ Len(ret.val) = 2
  /\ ret.val[2].inputs = <<<<" ", "3">>, <<" ", "4">>>>

\* s holds, from position i on, "def", white space, the identifier
\* s[a..b], optional white space and an opening parenthesis
C9_SignatureAt(s, i, a, b) ==
  /\ HasAt(s, i, DefKeyword)
  /\ a >= i + 4
  /\ \A p \in (i + 3)..(a - 1) : s[p] \in Spaces
  /\ a <= b
  /\ \A p \in a..b : s[p] \in WordChars
  /\ \E c \in (b + 1)..Len(s) :
       /\ s[c] = "("
       /\ \A p \in (b + 1)..(c - 1) : s[p] \in Spaces

\* C9: extractPythonFunctionName returns the identifier of the first
\* `def <name>(` signature of the template text, and the fallback identifier
\* 'solution' when the text is empty or absent or holds no such signature.
C9_FirstDefName ==
  ret.op = "extractPythonFunctionName" =>
    LET s == IF ret.code = None THEN <<>> ELSE ret.code[1]
        sigs == {i \in 1..Len(s) :
                   HasAt(s, i, DefKeyword)
                   /\ \E a \in (i + 4)..Len(s) :
                        \E b \in a..Len(s) : C9_SignatureAt(s, i, a, b)}
    IN IF sigs = {} THEN ret.val = Fallback
       ELSE \E a, b \in 1..Len(s) :
              /\ C9_SignatureAt(s, CHOOSE i \in sigs : \A j \in sigs : i <= j, a, b)
              /\ ret.val = SubSeq(s, a, b)

\* the name of the Two Sum template, and the fallback for a problem that
\* has no Python template
C9_Witness ==
  /\ ret.op = "extractPythonFunctionName"
  /\ \/ ret.code = Some(TwoSumCode) /\ ret.val = <<"t", "w", "o", "S", "u", "m">>
     \/ ret.code = Some(HelperFirstCode) /\ ret.val = <<"h", "e", "l", "p", "e", "r">>

\* C2: starting from an empty cache, after any sequence of operations of the
\* tool (fetchAndCacheProblem with any company, fetchNeetCodeForCached,
\* handleCacheCommand, createPythonTemplateFile online or offline), no slug
\* has a cache file in more than one partition directory.
C2_OneFilePerSlug ==
  \A s \in Slugs : Cardinality({p \in Partitions : fs.files[p][s] # None}) <= 1

\* two partitions hold files, and a slug that one command cached has just
\* been asked for again under the other partition's name
C2_Witness ==
  /\ fs.files["general"]["two-sum"] # None
  /\ fs.files["Amazon"]["lru-cache"] # None
  /\ fs.files["Amazon"]["3sum"] # None
  /\ last.op = "fetchAndCacheProblem"
  /\ last.slug = Some("3sum")
  /\ last.net = <<>>

\* the slug has a cache file that parses
C5_HasRecord(slug) ==
  \E p \in fs.dirs : fs.files[p][slug] # None /\ fs.files[p][slug][1].parseable

\* C5: with fetchOnline = false, createPythonTemplateFile sends no request to
\* a remote service, leaves the cache as it was, and completes without
\* raising: with the full template when the slug has a cached record, with
\* the basic template otherwise.
C5_OfflineUsesCacheOnly ==
  [][(last'.op = "createPythonTemplateFile" /\ ~last'.online) =>
       /\ last'.net = <<>>
       /\ fs' = fs
       /\ ~last'.threw
       /\ last'.template = IF last'.slug # None /\ C5_HasRecord(last'.slug[1])
                           THEN "full" ELSE "basic"]_vars

\* an offline createPythonTemplateFile that raised
C5_OfflineRaised ==
  /\ last.op = "createPythonTemplateFile"
  /\ ~last.online
  /\ last.threw
  /\ last.slug = Some("lru-cache")

\* the place of row idx in the ranking the claim describes: behind every row
\* of greater frequency and every earlier row of equal frequency
C6_Rank(rows, idx) ==
  1 + Cardinality({j \in 1..Len(rows) :
                     \/ C7_Key(rows[j].Frequency) > C7_Key(rows[idx].Frequency)
                     \/ /\ C7_Key(rows[j].Frequency) = C7_Key(rows[idx].Frequency)
                        /\ j < idx})

\* the first n rows of that ranking
C6_Prefix(rows, n) ==
  [j \in 1..(IF n < Len(rows) THEN n ELSE Len(rows)) |->
     rows[CHOOSE idx \in 1..Len(rows) : C6_Rank(rows, idx) = j]]

\* C6: handleCacheCommand with a positive limit attempts to cache exactly
\* the first `limit` records of the company's list ranked by integer-parsed
\* Frequency, descending, ties in file order: the loop runs over that prefix,
\* the command does not end before every record of it has had its turn, and
\* no record outside the prefix is fetched or written.
C6_LimitIsRankedPrefix ==
  [][(run.active /\ run.limit # None /\ run.limit[1] > 0) =>
       LET prefix == C6_Prefix(AmazonAll, run.limit[1])
           slugs == {s \in Slugs : \E j \in 1..Len(prefix) :
                                     prefix[j].Link = ProblemLink(s)}
       IN /\ run.problems = prefix
          /\ \A p \in Partitions, s \in Slugs :
               fs'.files[p][s] # fs.files[p][s] => s \in slugs
          /\ \A k \in 1..Len(last'.net) : last'.net[k][2] \in slugs
          /\ ~run'.active => run.i = Len(prefix)]_vars

\* a cache command with limit 2 that ended on its first record
C6_EndedEarly ==
  /\ last.op = "cache: problem"
  /\ last.slug = Some("lru-cache")
  /\ last.threw
  /\ ~run.active

\* what a command selects when it is given `company` in place of the name
\* typed, all else as in the call made
C11_Select(op, company) ==
  CASE op = "browse-cached" ->
         Ok(handleBrowseCachedCommand(fs, ret.listing, FileListing,
                                      company, ret.difficulty))
    [] op = "cache-solutions" ->
         Ok(handleCacheSolutionsCommand(fs, ret.listing, FileListing, company))
    [] op = "browse" -> handleBrowseCommand(company[1], ret.difficulty)
    [] op = "random" -> RandomGeneration(company[1], ret.period, ret.difficulty)
    [] op = "cache" -> handleCacheCommand(company[1], ret.limit)

\* the spellings of a company name the commands are given
C11_Names == {Some(c) : c \in CompanyArgs} \cup (CachedCompanyArgs \ {None})

\* C11: for every command that takes a company name (random generation,
\* cache, browse, browse-cached, cache-solutions), a name that differs from
\* the one typed only in letter case selects the same data.
C11_CompanyCaseInsensitive ==
  (ret.op # "none" /\ ret.company # None) =>
    \A other \in C11_Names :
      toLowerCase(other[1]) = toLowerCase(ret.company[1])
        => C11_Select(ret.op, other) = ret.val

\* browse-cached or cache-solutions was given an upper-case spelling of a
\* partition that holds records, and found none
C11_Witness ==
  /\ ret.op \in {"browse-cached", "cache-solutions"}
  /\ ret.company = Some("AMAZON")
  /\ ret.val = Ok(<<>>)
  /\ getAllCachedProblems(fs, ret.listing, FileListing, Some("Amazon")) # <<>>

\* the numbers of the test entries of the section generated
C12_Numbers == {ret.val[i].n : i \in 1..Len(ret.val)}

\* C12: for every problem that has a cached payload, the test section of
\* the generated solution.py holds at least 15 numbered test entries (real
\* invocations and placeholder slots together), whatever the number of test
\* cases derived.
C12_AtLeastFifteenTests ==
  ret.op = "generatePythonTestCases" => Cardinality(C12_Numbers) >= 15

\* some test case was derived, and the section stops at test 10
C12_Witness ==
  /\ ret.op = "generatePythonTestCases"
  /\ parseTestCases(arg) # <<>>
  /\ C12_Numbers = 1..10

\* the parseable records the partitions of `f` hold under `slug`
C13_Records(f, slug) ==
  {f.files[p][slug][1].value : p \in {q \in Partitions :
      f.files[q][slug] # None /\ f.files[q][slug][1].parseable}}

C14_Asked(kind) == \E i \in 1..Len(ret.net) : ret.net[i][1] = kind

\* C14: a remote service that cannot be reached or has nothing is never
\* fatal and never leaves anything in the cache.  When the request for the
\* problem detail fails or brings no question, fetchAndCacheProblem returns
\* null, raises nothing and writes no file; when neither solution source
\* brings a solution, fetchNeetCodeForCached returns null, raises nothing
\* and leaves the cached record as it was.
C14_RemoteUnavailableIsAbsence ==
  /\ (ret.op = "fetchAndCacheProblem" /\ C14_Asked("details") /\ ~ret.w.detail)
       => ret.val = None /\ ~ret.threw /\ fs = ret.before
  /\ (ret.op = "fetchNeetCodeForCached" /\ C14_Asked("neetcode")
        /\ ~ret.w.neet /\ ~ret.w.disc)
       => ret.val = None /\ ~ret.threw /\ fs = ret.before
  /\ (ret.op \in {"fetchAndCacheProblem", "fetchNeetCodeForCached"} /\ ret.threw)
       => ret.net = <<>>

\* fetchNeetCodeForCached asked both sources about a record that had been
\* fetched without a solution, and neither had one
C14_Witness ==
  /\ ret.op = "fetchNeetCodeForCached"
  /\ ret.net = << <<"neetcode", ret.slug[1]>>, <<"discussion", ret.slug[1]>> >>
  /\ ret.val = None
  /\ ret.slug = Some("3sum")

\* the level of the command line that a difficulty of LeetCode stands for
C15_Level(difficulty) ==
  CASE difficulty = "Easy" -> "EASY"
    [] difficulty = "Medium" -> "MEDIUM"
    [] difficulty = "Hard" -> "HARD"
    [] OTHER -> difficulty

\* the cached problems of the partitions asked for that are of the level asked for
C15_OfLevel ==
  {p \in Range(getAllCachedProblems(fs, ret.listing, FileListing, ret.company)) :
     C15_Level(p.difficulty) = ret.difficulty[1]}

\* C15: browse-cached with a difficulty filter offers exactly the cached
\* problems, of the partition asked for or of all partitions, whose
\* difficulty is the level asked for, for each of EASY, MEDIUM and HARD; the
\* list is not empty when the cache holds a problem of that level.
C15_DifficultyFilterOffersLevel ==
  (ret.op = "browse-cached" /\ ret.difficulty # None)
    => Range(ret.val.val) = C15_OfLevel

\* browse-cached --difficulty MEDIUM over a cache that holds a Medium
\* problem, with nothing on offer
C15_Witness ==
  /\ ret.op = "browse-cached"
  /\ ret.company = None
  /\ ret.difficulty = Some("MEDIUM")
  /\ C15_OfLevel # {}
  /\ ret.val.val = <<>>

\* some partition of `f` holds a file for `slug`
C16_Stored(f, slug) == \E p \in Partitions : f.files[p][slug] # None

\* getAllCachedProblems(company) lists `slug`, in whatever order the
\* directory is read
C16_Listed(f, company, slug) ==
  \E listing \in Listings :
    \E p \in Range(getAllCachedProblems(f, listing, FileListing, Some(company))) :
      p.slug = slug

\* C16: a problem fetched on demand while a template is generated for a
\* company (browse <company> or random generation with --company, online,
\* slug not yet cached) is stored in that company's partition, and is then
\* listed by getAllCachedProblems(<company>).  The rows handed to
\* createPythonTemplateFile are rows of Amazon's files.
C16_FetchedIntoCompanyPartition ==
  [][(/\ last'.op = "createPythonTemplateFile"
      /\ last'.online
      /\ last'.slug # None
      /\ ~C16_Stored(fs, last'.slug[1])
      /\ C16_Stored(fs', last'.slug[1]))
       => C16_Listed(fs', "Amazon", last'.slug[1])]_vars

\* a template made online has fetched its problem, and the record is in
\* the general partition
C16_Witness ==
  /\ last.op = "createPythonTemplateFile"
  /\ last.online
  /\ last.slug # None
  /\ <<"details", last.slug[1]>> \in Range(last.net)
  /\ fs.files["general"][last.slug[1]] # None
  /\ ~C16_Listed(fs, "Amazon", last.slug[1])

\* the places of the requests of this kind among those the call sent
C17_Places(kind) == {i \in 1..Len(ret.net) : ret.net[i][1] = kind}

\* the solutions of the parseable records held under the slug of the call
C17_StoredSolutions ==
  {fs.files[p][ret.slug[1]][1].value.neetcodeSolution :
     p \in {q \in Partitions : /\ fs.files[q][ret.slug[1]] # None
                               /\ fs.files[q][ret.slug[1]][1].parseable}}

\* C17: the solution lookup of fetchAndCacheProblem and of
\* fetchNeetCodeForCached asks NeetCode first; the LeetCode discussion is
\* asked if and only if NeetCode brought nothing, and after it; the solution
\* stored tells which of the two supplied it.
C17_PrimaryThenFallback ==
  (ret.op \in {"fetchAndCacheProblem", "fetchNeetCodeForCached"}
     /\ C17_Places("neetcode") # {})
    => /\ Cardinality(C17_Places("neetcode")) = 1
       /\ Cardinality(C17_Places("discussion")) <= 1
       /\ (C17_Places("discussion") # {}) <=> ~ret.w.neet
       /\ \A i \in C17_Places("neetcode"), j \in C17_Places("discussion") : i < j
       /\ ret.w.neet
            => C17_StoredSolutions = {Some(NeetCodePayload(ret.slug[1]))}
       /\ (~ret.w.neet /\ ret.w.disc)
            => C17_StoredSolutions = {Some(DiscussionPayload(ret.slug[1]))}
       /\ (~ret.w.neet /\ ~ret.w.disc)
            => \A sol \in C17_StoredSolutions : sol = None
       /\ NeetCodePayload(ret.slug[1]).source # DiscussionPayload(ret.slug[1]).source

\* NeetCode had nothing, the discussion was asked after it and supplied the
\* solution that is now stored
C17_Witness ==
  /\ ret.op = "fetchNeetCodeForCached"
  /\ ret.net = << <<"neetcode", ret.slug[1]>>, <<"discussion", ret.slug[1]>> >>
  /\ C17_StoredSolutions = {Some(DiscussionPayload(ret.slug[1]))}

\* the filter a fetcher applies to a code text
C18_Solution(code) ==
  IF ret.op = "fetchNeetCodeSolution"
  THEN code.hasDef /\ code.length > 50 /\ code.length < 5000
  ELSE (code.hasClass \/ code.hasDef) /\ code.length > 30

\* the candidates in the order in which the page or the posts give them up
C18_Found ==
  IF arg.from = "neetcode"
  THEN SelectSeq(arg.page, C18_Solution)
  ELSE Flatten([e \in 1..Len(arg.page) |->
         SelectSeq(arg.page[e],
                   LAMBDA b : b.tag = "Python3" /\ b.closed /\ C18_Solution(b.code))
         \o SelectSeq(arg.page[e],
                      LAMBDA b : b.tag \in {"Python3", "python"} /\ b.closed
                                 /\ C18_Solution(b.code))])

\* the texts of the candidates
C18_Texts(found) ==
  [i \in 1..Len(found) |-> IF arg.from = "neetcode" THEN found[i].text
                           ELSE found[i].code.text]

\* the places where a text is found for the first time
C18_New(texts) == {i \in 1..Len(texts) : \A j \in 1..(i - 1) : texts[j] # texts[i]}

\* C18: every solution payload that is not absent has a list of candidate
\* solution texts that is not empty and holds no text twice, and an
\* optimalSolution that is in the list: the last candidate found when the
\* payload comes from NeetCode, the first candidate found when it comes from
\* the LeetCode discussion.  A candidate found again counts where it was
\* found first.
C18_PayloadWellFormed ==
  (ret.op \in {"fetchNeetCodeSolution", "fetchLeetCodeDiscussionSolution"})
    => LET texts == C18_Texts(C18_Found)
       IN /\ ret.val = None <=> texts = <<>>
          /\ ret.val # None =>
               LET p == ret.val[1]
               IN /\ p.solutions # <<>>
                  /\ \A i, j \in 1..Len(p.solutions) :
                       p.solutions[i] = p.solutions[j] => i = j
                  /\ Range(p.solutions) = Range(texts)
                  /\ p.optimalSolution \in Range(p.solutions)
                  /\ ret.op = "fetchNeetCodeSolution" =>
                       \E i \in C18_New(texts) :
                         /\ p.optimalSolution = texts[i]
                         /\ \A j \in C18_New(texts) : j <= i
                  /\ ret.op = "fetchLeetCodeDiscussionSolution" =>
                       p.optimalSolution = texts[1]

\* a payload built from a page in which a solution is found twice and
\* another after it
C18_Witness ==
  /\ ret.op = "fetchNeetCodeSolution"
  /\ ret.val # None
  /\ Len(C18_Found) = 3
  /\ Len(ret.val[1].solutions) = 2
  /\ ret.val[1].optimalSolution # C18_Found[1].text

\* C19: every call of createPythonTemplateFile that succeeds leaves exactly
\* three documents written in the output folder, README.md, solution.py and
\* answer.py, whether or not a cached payload exists and whether or not the
\* record's link holds a slug.
C19_ThreeDocuments ==
  (last.op = "createPythonTemplateFile" /\ ~last.threw)
    => Documents(last.slug, last.template) = {"README.md", "solution.py", "answer.py"}

\* a template made for a row whose link holds no slug
C19_Witness ==
  /\ last.op = "createPythonTemplateFile"
  /\ ~last.threw
  /\ last.slug = None
  /\ last.template = "basic"
  /\ "answer.py" \notin Documents(last.slug, last.template)

\* C20: in the bulk operations a failure while one item is processed is
\* caught and counted, and does not keep the remaining items from being
\* processed: every later item of the sequence is still visited.  For
\* handleCacheCommand: each turn of the loop ends inside the loop, on the
\* next item.
C20_EveryItemVisited ==
  [][(run.active /\ run.i < Len(run.problems))
       => /\ run'.active
          /\ run'.i = run.i + 1
          /\ run'.problems = run.problems
          /\ ~last'.threw]_vars

\* the exception raised on the file of lru-cache that does not parse has
\* ended handleCacheCommand
C20_Witness ==
  /\ last.op = "cache: problem"
  /\ last.threw
  /\ last.slug = Some("lru-cache")
  /\ ~run.active
  /\ \E p \in Partitions : fs.files[p]["lru-cache"] = Some(CorruptText)

\* the partitions that hold a file for the slug of the load
C21_Holders == {p \in fs.dirs : fs.files[p][call.slug] # None}

\* C21: loadProblemCache on a slug whose cache file exists and cannot be
\* parsed returns null, as it does for a slug that has no file, and raises
\* nothing.
C21_UnparseableLoadsAsAbsent ==
  (/\ call.op = "load"
   /\ C21_Holders # {}
   /\ \A p \in C21_Holders : fs.files[p][call.slug] = Some(CorruptText))
    => call.res = Ok(None)

\* the only file of the slug does not parse, and the load raised
C21_Witness ==
  /\ call.op = "load"
  /\ Cardinality(C21_Holders) = 1
  /\ \A p \in C21_Holders : fs.files[p][call.slug] = Some(CorruptText)
  /\ call.res = Threw

\* the places of the trace of the run at which a request was sent
C22_Requests == {k \in 1..Len(run.events) : run.events[k].kind = "request"}

\* the wait a loop makes at the end of a turn
C22_Delay == IF run.op = "cache" THEN CacheDelay ELSE SolutionsDelay

\* C22: in handleCacheCommand and handleCacheSolutionsCommand the items are
\* processed one at a time: what a run does comes in the order of its items,
\* between the requests of an item and the first request of a later item the
\* loop has waited its fixed delay for the earlier one, and an item passed
\* over as already cached, or as already having a solution, has no request.
C22_OneAtATimeWithDelay ==
  /\ \A a, b \in 1..Len(run.events) :
       a < b => run.events[a].item <= run.events[b].item
  /\ \A a, b \in C22_Requests :
       (a < b /\ run.events[a].item < run.events[b].item)
         => \E d \in (a + 1)..(b - 1) :
              run.events[d] = Event("delay", run.events[a].item, C22_Delay)
  /\ \A a \in C22_Requests, s \in 1..Len(run.events) :
       run.events[s].kind = "skip" => run.events[s].item # run.events[a].item

\* a run of handleCacheCommand has fetched two items one after the other and
\* passed over a third
C22_Witness ==
  /\ run.op = "cache"
  /\ \E a, b \in C22_Requests : run.events[a].item < run.events[b].item
  /\ \E s \in 1..Len(run.events) : run.events[s].kind = "skip"

\* the places of a cache that hold a file: partition and slug
C23_Files(f) == {ps \in Partitions \X Slugs : f.files[ps[1]][ps[2]] # None}

\* C23: the company field of every record the tool has written is the name
\* of the partition directory that holds its file; and when
\* fetchNeetCodeForCached adds a solution, it writes over the file the record
\* was loaded from, leaves every other file and the set of files as they
\* were, and changes no field of the record but the solution.
C23_SolutionSavedInPlace ==
  /\ \A ps \in C23_Files(fs) :
       fs.files[ps[1]][ps[2]][1].parseable
         => /\ fs.files[ps[1]][ps[2]][1].value.company = ps[1]
            /\ fs.files[ps[1]][ps[2]][1].value.slug = ps[2]
  /\ (ret.op = "fetchNeetCodeForCached" /\ ret.wrote)
       => /\ C23_Files(fs) = C23_Files(ret.before)
          /\ fs.dirs = ret.before.dirs
          /\ \E p \in Partitions :
               /\ ret.before.files[p][ret.slug[1]] # None
               /\ ret.before.files[p][ret.slug[1]][1].parseable
               /\ fs.files[p][ret.slug[1]] =
                    Some(JSONstringify(
                      [ret.before.files[p][ret.slug[1]][1].value
                         EXCEPT !.neetcodeSolution = ret.val]))
               /\ \A ps \in C23_Files(fs) :
                    ps # <<p, ret.slug[1]>>
                      => fs.files[ps[1]][ps[2]] = ret.before.files[ps[1]][ps[2]]

\* fetchNeetCodeForCached has added a solution to a record of the Amazon
\* partition while another partition holds files too
C23_Witness ==
  /\ ret.op = "fetchNeetCodeForCached"
  /\ ret.wrote
  /\ ret.val # None
  /\ ret.before.files["Amazon"][ret.slug[1]] # None
  /\ \E s \in Slugs : fs.files["general"][s] # None

\* the file of a partition and a slug holds a record
C24_Record(f, p, s) == f.files[p][s] # None /\ f.files[p][s][1].parseable

\* the step sends a request for a solution of the slug
C24_SolutionAsked(net, s) ==
  \E k \in 1..Len(net) : net[k] \in {<<"neetcode", s>>, <<"discussion", s>>}

\* C24: no operation of the tool deletes a cache file; a cached record keeps
\* every field but the reference solution as it was created; and a record
\* that has a solution keeps that solution, and no request for a solution of
\* its slug is sent.
C24_RecordsOnlyGainSolution ==
  [][\A p \in Partitions, s \in Slugs :
       /\ fs.files[p][s] # None => fs'.files[p][s] # None
       /\ C24_Record(fs, p, s)
            => /\ C24_Record(fs', p, s)
               /\ [fs'.files[p][s][1].value EXCEPT !.neetcodeSolution =
                     fs.files[p][s][1].value.neetcodeSolution]
                    = fs.files[p][s][1].value
               /\ fs.files[p][s][1].value.neetcodeSolution # None
                    => /\ fs'.files[p][s] = fs.files[p][s]
                       /\ ~C24_SolutionAsked(last'.net, s)]_vars

\* fetchNeetCodeForCached and the template were asked for a slug whose record
\* has a solution: nothing was sent
C24_Witness ==
  /\ last.op \in {"fetchNeetCodeForCached", "createPythonTemplateFile"}
  /\ last.online
  /\ last.slug # None
  /\ last.net = <<>>
  /\ ~last.threw
  /\ \E p \in Partitions :
       /\ C24_Record(fs, p, last.slug[1])
       /\ fs.files[p][last.slug[1]][1].value.neetcodeSolution # None

\* the level a difficulty stands for, however it is spelled
C25_Level(d) ==
  CASE d \in {"EASY", "Easy"} -> 1
    [] d \in {"MEDIUM", "Medium"} -> 2
    [] d \in {"HARD", "Hard"} -> 3

\* the partition label of a cached record
C25_Label(p) == IF p.company # "" THEN p.company ELSE "general"

\* the list offered holds the records given, each as often
C25_SameRecords ==
  \A x \in Range(arg) :
    Cardinality({i \in 1..Len(arg) : arg[i] = x})
      = Cardinality({i \in 1..Len(ret.val) : ret.val[i] = x})

\* C25: the list browse offers is in the order Easy, Medium, Hard and, within
\* a level, in the order of the titles, whether the rows spell the levels in
\* upper case or capitalised; the list browse-cached offers is in the order
\* of the partition labels (no label counting as 'general'), then of the
\* levels, then of the titles.  Both hold the records they were given.
C25_BrowseListsSorted ==
  /\ ret.op = "handleBrowseCommand"
       => /\ Len(ret.val) = Len(arg)
          /\ C25_SameRecords
          /\ \A i, j \in 1..Len(ret.val) :
               i < j =>
                 \/ C25_Level(ret.val[i].Difficulty) < C25_Level(ret.val[j].Difficulty)
                 \/ /\ C25_Level(ret.val[i].Difficulty) = C25_Level(ret.val[j].Difficulty)
                    /\ Collation(ret.val[i].Title) <= Collation(ret.val[j].Title)
  /\ ret.op = "handleBrowseCachedCommand"
       => /\ Len(ret.val) = Len(arg)
          /\ C25_SameRecords
          /\ \A i, j \in 1..Len(ret.val) :
               i < j =>
                 \/ Collation(C25_Label(ret.val[i])) < Collation(C25_Label(ret.val[j]))
                 \/ /\ C25_Label(ret.val[i]) = C25_Label(ret.val[j])
                    /\ C25_Level(ret.val[i].difficulty) < C25_Level(ret.val[j].difficulty)
                 \/ /\ C25_Label(ret.val[i]) = C25_Label(ret.val[j])
                    /\ C25_Level(ret.val[i].difficulty) = C25_Level(ret.val[j].difficulty)
                    /\ Collation(ret.val[i].title) <= Collation(ret.val[j].title)

\* browse was given a Hard row before an Easy row, spelled as LeetCode spells
\* them, and offers them as they came
C25_Witness ==
  /\ ret.op = "handleBrowseCommand"
  /\ Len(arg) = 2
  /\ arg[1].Difficulty = "Hard"
  /\ arg[2].Difficulty = "Easy"
  /\ ret.val = arg

\* the rows of the input that pass the filter of the call
C26_Passing ==
  {i \in 1..Len(arg) :
     ret.difficulty = None \/ arg[i].Difficulty = ret.difficulty[1]}

\* C26: getRandomProblem raises "No problems found with filters" exactly when
\* no row passes the filter; otherwise it returns a row of the input, of
\* exactly the difficulty asked for when one is asked for.
C26_RandomPickPassesFilter ==
  ret.op = "getRandomProblem"
    => /\ ret.threw <=> C26_Passing = {}
       /\ ~ret.threw => \E i \in C26_Passing : ret.val = Some(arg[i])

\* a row was picked among three of which one is of the difficulty asked for
C26_Witness ==
  /\ ret.op = "getRandomProblem"
  /\ ret.difficulty = Some("MEDIUM")
  /\ Len(arg) = 3
  /\ Cardinality(C26_Passing) = 1
  /\ ret.val # None

\* the last slot generatePythonTestCases writes after real test cases
C27_Total == 10

\* the places of the lines of a kind in the section generated
C27_Lines(kind) == {i \in 1..Len(ret.val) : ret.val[i].kind = kind}

\* the line calls the function on arguments derived from the examples
C27_Real(line) == line.call # None /\ line.call[1].args # None

\* C27: with n >= 1 test cases derived, generatePythonTestCases writes the n
\* invocations, numbered 1..n in the order of the test cases, and after them
\* commented-out slots numbered n+1..10: the numbers written are 1..max(n, 10),
\* each once among the print statements, and no slot is written when n is 10
\* or more.  With no test case derived it writes placeholders only, no
\* invocation with arguments.
C27_NumberedTestsThenSlots ==
  ret.op = "generatePythonTestCases" =>
    LET testCases == parseTestCases(arg)
        n == Len(testCases)
        last_ == IF n > C27_Total THEN n ELSE C27_Total
        prints == C27_Lines("print")
        slots == C27_Lines("commented print")
    IN /\ n >= 1 =>
            /\ {ret.val[i].n : i \in 1..Len(ret.val)} = 1..last_
            /\ \A i, j \in prints \cup slots :
                 ret.val[i].n = ret.val[j].n => i = j
            /\ \A i, j \in 1..Len(ret.val) : i < j => ret.val[i].n <= ret.val[j].n
            /\ {ret.val[i].n : i \in prints} = 1..n
            /\ \A i \in prints :
                 ret.val[i].call =
                   Some(TestCall(TemplateFunctionName(arg),
                                 Some(testCases[ret.val[i].n].inputs)))
            /\ {ret.val[i].n : i \in slots} = (n + 1)..C27_Total
            /\ \A i \in slots : ~C27_Real(ret.val[i])
       /\ n = 0 => \A i \in 1..Len(ret.val) : ~C27_Real(ret.val[i])

\* eleven test cases were derived: eleven invocations and no slot
C27_Witness ==
  /\ ret.op = "generatePythonTestCases"
  /\ Len(parseTestCases(arg)) = 11
  /\ C27_Lines("commented print") = {}
  /\ Cardinality(C27_Lines("print")) = 11

\* the source that supplied a solution, by the payload's own mark: None when
\* there is no solution
C28_Supplier(solution) ==
  IF solution = None THEN None
  ELSE IF solution[1].source = "leetcode_discussion" THEN Some("LeetCode discussion")
  ELSE Some("NeetCode")

\* the source the comments of answer.py give the solution
C28_Named(content) ==
  IF content.source = "NeetCode.io" \/ content.heading = "Optimal Solution from NeetCode"
  THEN Some("NeetCode")
  ELSE None

\* C28: the comments of answer.py name the source that supplied the solution:
\* NeetCode when it came from NeetCode, the LeetCode discussion when it came
\* from there, and no source when there is no solution.
C28_ProvenanceNamesSupplier ==
  ret.op = "generateAnswerContent"
    => C28_Named(ret.val) = C28_Supplier(ret.solution)

\* answer.py holds a solution the LeetCode discussion supplied, and credits
\* NeetCode
C28_Witness ==
  /\ ret.op = "generateAnswerContent"
  /\ ret.solution # None
  /\ ret.solution[1].source = "leetcode_discussion"
  /\ ret.val.optimalSolution = Some(ret.solution[1].optimalSolution)
  /\ ret.val.heading = "Optimal Solution from NeetCode"

\* the files the cache holds now and did not hold when the run started
C29_NewFiles ==
  {ps \in Partitions \X Slugs :
     run.start.files[ps[1]][ps[2]] = None /\ fs.files[ps[1]][ps[2]] # None}

\* the slugs getAllCachedProblems lists for the company of the run
C29_ListedSlugs ==
  {p.slug : p \in Range(getAllCachedProblems(fs, <<>>, FileListing, run.company))}

\* the slugs of the rows the run went over
C29_SelectedSlugs ==
  {extractSlug(run.items[i].Link)[1] :
     i \in {j \in 1..Len(run.items) : extractSlug(run.items[j].Link) # None}}

\* C29: when handleCacheCommand has gone through its list and every fetch it
\* made has brought its record, getAllCachedProblems of the company lists a
\* record for every slug of the list, whatever the cache held before the run.
C29_CompanyListsItsSelection ==
  (/\ run.op = "cache"
   /\ run.pc = "done"
   /\ run.cached = Cardinality(C29_NewFiles))
    => C29_SelectedSlugs \subseteq C29_ListedSlugs

\* a run for Amazon is over, every fetch brought its record, and a slug of
\* the list that the general partition held is not listed for Amazon
C29_Witness ==
  /\ run.op = "cache"
  /\ run.pc = "done"
  /\ run.cached >= 1
  /\ run.cached = Cardinality(C29_NewFiles)
  /\ run.skipped >= 1
  /\ \E s \in C29_SelectedSlugs \ C29_ListedSlugs : fs.files["general"][s] # None

\* the turns of the loop that are over
C30_Processed == IF run.pc = "delay" THEN run.i + 1 ELSE run.i

\* the files written since the run started
C30_Written ==
  {ps \in Partitions \X Slugs :
     fs.files[ps[1]][ps[2]] # run.start.files[ps[1]][ps[2]]}

\* the items the run passed over as already cached
C30_AlreadyCached ==
  {k \in 1..Len(run.events) : run.events[k].kind = "skip"}

\* C30: all through the loop of handleCacheCommand and after it, `cached` is
\* the number of cache files the run has written and `skipped` the number of
\* items it found cached; an item whose fetch brought nothing does not count
\* as cached; and the two together never exceed the items gone over.
C30_CountersMatchCache ==
  run.op = "cache"
    => /\ run.cached = Cardinality(C30_Written)
       /\ run.skipped = Cardinality(C30_AlreadyCached)
       /\ run.cached + run.skipped <= C30_Processed

\* the details of an item did not come: no file was written, and the item
\* counts as cached
C30_Witness ==
  /\ run.op = "cache"
  /\ run.pc = "done"
  /\ run.cached = 1
  /\ C30_Written = {}
  /\ \E k \in 1..Len(run.events) : run.events[k] = Event("request", 0, "details")

====
